---- MODULE Spec2Model ----
(***************************************************************************)
(* Model of the two stateful subsystems of the jkinfotech backend:         *)
(*   - IngestionService (src/src/ingestion/ingestion.service.ts): the job  *)
(*     state machine, the detached processing step with its retry timer,   *)
(*     the Trigger / Cancel / Retry calls (Spec), the same with failing    *)
(*     persistence operations (FaultSpec) and with GetStatus and unknown   *)
(*     ids (LookupSpec), under fair scheduling of the steps (LiveSpec),    *)
(*     Trigger and BatchTrigger for several jobs (IntakeSpec), a batch     *)
(*     whose triggerIngestion may fail (BatchFaultSpec), and the functions *)
(*     of the retry policy (PolicySpec applies them to every argument in   *)
(*     range);                                                             *)
(*   - AuthService and JwtStrategy (src/unnamed/part_002): refresh-token   *)
(*     rotation and expiry (AuthSpec), the same with failing saves         *)
(*     (RefreshFaultSpec), logout, the access-token blacklist and request  *)
(*     authentication (SessionSpec), login and register split at their     *)
(*     awaits (AccountSpec).                                               *)
(* Every `await` of the source is a point where other handlers may run,    *)
(* so a handler is one action per stretch of code between two awaits, and  *)
(* the entity a handler loaded is a private copy until it is saved.        *)
(* repository.save(entity) is an upsert of the whole entity.               *)
(***************************************************************************)
EXTENDS Integers, Sequences, FiniteSets, TLC

\* ---------------------------------------------------------------- bounds
MaxJobs == 1          \* jobs Trigger may create
MaxManualCalls == 2   \* Cancel and Retry calls that may be accepted in a run
MaxIntake == 2        \* jobs Trigger and BatchTrigger may create (IntakeSpec)
MaxBatch == 2         \* requests of one BatchTrigger call
MaxFaults == 2        \* persistence operations that fail
MaxSignins == 2       \* login and register calls in flight at once
MaxPending == 2       \* Cancel/Retry calls between their findOne and their save
MaxTokens == 3        \* refresh tokens that may be issued in a run
MaxRefreshCalls == 2  \* Refresh calls in flight at the same time
MaxNow == 14          \* the clock stops here (days since the start)
MaxUsers == 2         \* subjects an access token may name
MaxLogoutCalls == 1   \* logout calls in flight at the same time
MaxAttempt == 6       \* largest attempt number a policy function is given
RandomSteps == 10     \* Math.random() is one of 0, 1/RandomSteps, ... below 1

\* ------------------------------------------------------- program constants
maxRetries == 3
baseDelayMs == 2000
maxDelayMs == 30000
exponentialBackoff == TRUE
\* createRefreshToken: expiresAt.setDate(expiresAt.getDate() + 7)
RefreshTokenDays == 7

\* IngestionStatus
PENDING == "pending"
PROCESSING == "processing"
RETRYING == "retrying"
COMPLETED == "completed"
FAILED == "failed"
IngestionStatus == {PENDING, PROCESSING, RETRYING, COMPLETED, FAILED}

\* IngestionType
DOCUMENT == "document"
EMAIL == "email"
API == "api"
DATABASE == "database"
IngestionType == {DOCUMENT, EMAIL, API, DATABASE}
\* the request types the model draws Trigger's input from: the one type that
\* gets a documentId and one that does not
RequestTypes == {DOCUMENT, EMAIL}

\* ErrorCategory
TRANSIENT == "transient"
PERMANENT == "permanent"
UNKNOWN == "unknown"
ErrorCategory == {TRANSIENT, PERMANENT, UNKNOWN}

\* what one run of simulateProcessingResult can draw: success (rand > 0.3)
\* or a failure of one of the three categories
SUCCESS == "success"
Outcomes == {SUCCESS} \cup ErrorCategory

\* the job messages, by the statement that writes them
MsgQueued == "Document ingestion is queued for processing"
MsgProcessing == "Ingestion job is currently being processed"
MsgCompleted == "Ingestion job has been successfully completed"
MsgRetrying == "Retrying ingestion"
MsgFailedAfter == "Ingestion failed after retry attempts"
MsgCanceled == "Ingestion job was canceled by the user"
MsgQueuedRetry == "Ingestion job has been queued for retry"

VARIABLES
    jobs,      \* the ingestion_jobs table: a sequence, a job's id is its index
    tasks,     \* the invocations of processIngestionAsync, each with its
               \* position and the entity it loaded
    calls,     \* Cancel/Retry calls that have read the job and not yet saved
    accepted,  \* number of Cancel and Retry calls accepted so far
    response,  \* what the last finished Trigger/Cancel/Retry call returned
    hist,      \* per job, the history of its processing steps for as long as
               \* no Cancel or Retry call has touched the job
    users,     \* the users table: a sequence, a user's id is its index
    tokens,    \* the refresh_tokens table: a sequence, a token's value is
               \* its index (uuidv4: a value never issued before)
    now,       \* the clock, in days
    refreshes, \* the refreshToken calls in flight, each with its position
               \* and the entity it loaded
    authResponse, \* what the last finished AuthService call or request
               \* authentication returned
    blacklist, \* AuthService.tokenBlacklist: the access tokens logged out
    signins,   \* the login and register calls in flight, each with what it
               \* has read so far
    faults,    \* the persistence operations that have failed so far
    batch,     \* the batchIngestion call in flight: its requests and the
               \* views collected so far
    probe,     \* one evaluation of a function of the retry policy: its
               \* arguments and, once applied, its result
    logouts    \* the logout calls in flight, each with its position and
               \* the entities it still has to save

ingestionVars ==
    <<jobs, tasks, calls, accepted, response, hist, batch, faults>>
sessionVars == <<blacklist, logouts>>
authVars == <<users, tokens, now, refreshes, authResponse, blacklist, logouts>>
policyVars == <<probe>>
accountVars == <<signins>>
vars == <<jobs, tasks, calls, accepted, response, hist,
          users, tokens, now, refreshes, authResponse,
          blacklist, logouts, probe, batch, faults, signins>>

JobIds == 1..MaxJobs

\* the value of a variable that holds no entity
NoJob == [type |-> "none", status |-> "none", message |-> "none",
          documentId |-> "none", retryAttempts |-> 0, lastErrorMessage |-> "none",
     errorDetails |-> "none"]

IdleCall == [op |-> "idle", id |-> 0, job |-> NoJob]

\* history of a job: PROCESSING writes, RETRYING writes, and the outcomes drawn
\* cancels, retries: the Cancel and Retry calls accepted for the job;
\* overlapped: a Retry passed its status check while a step of the job was
\* running or scheduled
NoHist == [live |-> TRUE, attempts |-> 0, retryings |-> 0, outcomes |-> <<>>,
           cancels |-> 0, retries |-> 0, overlapped |-> FALSE]
\* the history of a job that a Cancel or Retry call has touched is not kept
VoidHist == [live |-> FALSE, attempts |-> 0, retryings |-> 0, outcomes |-> <<>>,
             cancels |-> 0, retries |-> 0, overlapped |-> FALSE]
touchedByCancel(h) ==
    [VoidHist EXCEPT !.cancels = h.cancels + 1, !.retries = h.retries,
                     !.overlapped = h.overlapped]
touchedByRetry(h, overlap) ==
    [VoidHist EXCEPT !.cancels = h.cancels, !.retries = h.retries + 1,
                     !.overlapped = h.overlapped \/ overlap]

Min(a, b) == IF a < b THEN a ELSE b

\* ------------------------------------------------------ Retry Policy Engine
\* faulty variants of shouldRetryError
shouldRetryError_offByOne(category, attempts) ==
    IF attempts > maxRetries THEN FALSE
    ELSE IF category = TRANSIENT \/ category = UNKNOWN THEN TRUE
    ELSE FALSE

shouldRetryError_ignoresCategory(category, attempts) ==
    IF attempts >= maxRetries THEN FALSE ELSE TRUE

shouldRetryError_oneFewer(category, attempts) ==
    IF attempts + 1 >= maxRetries THEN FALSE
    ELSE IF category = TRANSIENT \/ category = UNKNOWN THEN TRUE
    ELSE FALSE

\* faulty variant: the category is looked at before the attempts
shouldRetryError_categoryFirst(category, attempts) ==
    IF category = TRANSIENT \/ category = UNKNOWN THEN TRUE
    ELSE IF attempts >= maxRetries THEN FALSE
    ELSE FALSE

shouldRetryError(category, attempts) ==
    IF attempts >= maxRetries THEN FALSE
    ELSE IF category = TRANSIENT \/ category = UNKNOWN THEN TRUE
    ELSE FALSE

\* Math.random() * 0.3 * exponentialDelay, Math.random() being
\* random / RandomSteps
jitterOf(exponentialDelay, random) ==
    (random * 3 * exponentialDelay) \div (10 * RandomSteps)

\* faulty variant: the delay is not capped
calculateRetryDelay_uncapped(attempt, random, backoff) ==
    IF ~backoff THEN baseDelayMs
    ELSE LET exponentialDelay == baseDelayMs * 2^attempt
         IN exponentialDelay + jitterOf(exponentialDelay, random)

\* calculateRetryDelay(attempt), for a value of Math.random() and of
\* retryConfig.exponentialBackoff
calculateRetryDelay(attempt, random, backoff) ==
    IF ~backoff THEN baseDelayMs
    ELSE LET exponentialDelay == baseDelayMs * 2^attempt
         IN Min(exponentialDelay + jitterOf(exponentialDelay, random), maxDelayMs)

\* ---------------------------------------------- the policy functions alone
NoProbe == [fn |-> "none", done |-> FALSE, category |-> "none", attempts |-> 0,
            random |-> 0, backoff |-> exponentialBackoff,
            retry |-> FALSE, delay |-> 0]

ShouldRetryInputs ==
    {[NoProbe EXCEPT !.fn = "shouldRetryError", !.category = c, !.attempts = n] :
        c \in ErrorCategory, n \in 0..MaxAttempt}

DelayInputs ==
    {[NoProbe EXCEPT !.fn = "calculateRetryDelay", !.attempts = n,
                     !.random = k, !.backoff = b] :
        n \in 0..MaxAttempt, k \in 0..(RandomSteps - 1), b \in BOOLEAN}

applyShouldRetryError ==
    /\ probe.fn = "shouldRetryError"
    /\ ~probe.done
    /\ probe' = [probe EXCEPT
           !.done = TRUE,
           !.retry = shouldRetryError(probe.category, probe.attempts)]

applyCalculateRetryDelay ==
    /\ probe.fn = "calculateRetryDelay"
    /\ ~probe.done
    /\ probe' = [probe EXCEPT
           !.done = TRUE,
           !.delay = calculateRetryDelay(probe.attempts, probe.random,
                                         probe.backoff)]

\* ------------------------------------------------------------- persistence
\* ingestionJobRepository.save(job) for an existing id
saveJob(id, job) == jobs' = [jobs EXCEPT ![id] = job]

\* ---------------------------------------------------------------- Trigger
\* triggerIngestion: create + save the PENDING job, start the background
\* step (its findOne is pending), return the view of the saved job.
newJob(type) ==
    [type |-> type, status |-> PENDING, message |-> MsgQueued,
     documentId |-> "none", retryAttempts |-> 0, lastErrorMessage |-> "none",
     errorDetails |-> "none"]

\* attempt: the argument of the calculateRetryDelay call that set the step's
\* pending timer (0: no timer is pending)
newTask(id) == [id |-> id, pc |-> "find", job |-> NoJob, attempt |-> 0]

\* faulty variant: the view shows the status the job was created with
mapToResponseDto_statusAtCreation(id, job) ==
    [id |-> id, type |-> job.type, status |-> PENDING,
     message |-> job.message, documentId |-> job.documentId,
     retryAttempts |-> job.retryAttempts,
     lastErrorMessage |-> job.lastErrorMessage,
     errorDetails |-> job.errorDetails]

\* mapToResponseDto(job)
mapToResponseDto(id, job) ==
    [id |-> id, type |-> job.type, status |-> job.status,
     message |-> job.message, documentId |-> job.documentId,
     retryAttempts |-> job.retryAttempts,
     lastErrorMessage |-> job.lastErrorMessage,
     errorDetails |-> job.errorDetails]

\* faulty variant: the job is saved and no processing step is started
triggered_noStep(type) ==
    /\ jobs' = Append(jobs, newJob(type))
    /\ hist' = Append(hist, NoHist)
    /\ UNCHANGED tasks

\* the three effects of a triggerIngestion whose save succeeds: the insert
\* under a generated id, the start of the background step, the history
triggered(type) ==
    /\ jobs' = Append(jobs, newJob(type))
    /\ tasks' = Append(tasks, newTask(Len(jobs) + 1))
    /\ hist' = Append(hist, NoHist)

triggerIngestion(type) ==
    /\ triggered(type)
    /\ response' = [op |-> "trigger", result |-> "ok",
                    view |-> mapToResponseDto(Len(jobs) + 1, newJob(type))]
    /\ UNCHANGED <<calls, accepted>>

\* ---------------------------------------------------------- BatchTrigger
NoBatch == [pc |-> "idle", requests |-> <<>>, responses |-> <<>>]
BatchRequests ==
    UNION {[1..n -> RequestTypes] : n \in 0..MaxBatch}
\* jobs the batch in flight has still to create
Reserved == Len(batch.requests) - Len(batch.responses)

\* faulty variant: the view is put in front of the ones collected
pushed_inFront(responses, view) == <<view>> \o responses

\* responses.push(response)
pushed(responses, view) == Append(responses, view)

\* batchIngestion up to its first await: an empty batch returns at once;
\* otherwise the loop is entered and the first triggerIngestion awaited
batchIngestion(requests) ==
    /\ batch.pc = "idle"
    /\ IF requests = <<>>
       THEN /\ response' = [op |-> "batch", result |-> "ok", views |-> <<>>]
            /\ UNCHANGED batch
       ELSE /\ batch' = [pc |-> "run", requests |-> requests, responses |-> <<>>]
            /\ UNCHANGED response
    /\ UNCHANGED <<jobs, tasks, calls, accepted, hist>>

\* the awaited triggerIngestion resolves: its job is saved and its step
\* started, its view is pushed, and the loop goes on to the next request or
\* batchIngestion returns the views
batchTrigger ==
    /\ batch.pc = "run"
    /\ LET i == Len(batch.responses) + 1
           type == batch.requests[i]
           view == mapToResponseDto(Len(jobs) + 1, newJob(type))
       IN /\ triggered(type)
          /\ IF i = Len(batch.requests)
             THEN /\ response' = [op |-> "batch", result |-> "ok",
                                  views |-> pushed(batch.responses, view)]
                  /\ batch' = NoBatch
             ELSE /\ batch' = [batch EXCEPT !.responses = pushed(@, view)]
                  /\ UNCHANGED response
    /\ UNCHANGED <<calls, accepted>>

\* ids of the jobs the batch in flight has created
createdBy(responses) == {responses[i].id : i \in DOMAIN responses}

\* faulty variant: the views collected so far are returned with the error
batchError_partial(responses) ==
    [op |-> "batch", result |-> "QueryFailed", views |-> responses]

\* the rejection of batchIngestion: the error of the failed triggerIngestion,
\* the local array of views is lost
batchError(responses) == [op |-> "batch", result |-> "QueryFailed"]

\* the awaited triggerIngestion rejects (its save of the new job failed, so
\* no job was saved and no step started): nothing catches the error, the
\* loop is left and batchIngestion rejects.  created and unsettled record
\* the jobs this batch had created and those of them not yet settled.
batchTriggerFails ==
    /\ batch.pc = "run"
    /\ response' = [created |-> createdBy(batch.responses),
                    unsettled |-> {id \in createdBy(batch.responses) :
                                     jobs[id].status \notin {COMPLETED, FAILED}}]
                   @@ batchError(batch.responses)
    /\ batch' = NoBatch
    /\ UNCHANGED <<jobs, tasks, calls, accepted, hist>>

\* ------------------------------------------------------------- GetStatus
getIngestionStatus(id) ==
    /\ response' = IF id \notin DOMAIN jobs
                   THEN [op |-> "status", result |-> "NotFound"]
                   ELSE [op |-> "status", result |-> "ok",
                         view |-> mapToResponseDto(id, jobs[id])]
    /\ UNCHANGED <<jobs, tasks, calls, accepted, hist>>

\* ------------------------------------------------- processIngestionAsync
\* findOne resolves: the step now holds its own copy of the job
processFind(t) ==
    /\ tasks[t].pc = "find"
    /\ IF tasks[t].id \in DOMAIN jobs
       THEN tasks' = [tasks EXCEPT ![t].pc = "loaded",
                                   ![t].job = jobs[tasks[t].id]]
       ELSE tasks' = [tasks EXCEPT ![t].pc = "done"]
    /\ UNCHANGED <<jobs, calls, accepted, response, hist>>

\* job.status = PROCESSING; save(job)
markProcessing(job) ==
    [job EXCEPT !.status = PROCESSING, !.message = MsgProcessing]

processSave(t) ==
    /\ tasks[t].pc = "loaded"
    /\ LET id == tasks[t].id
           job == markProcessing(tasks[t].job)
       IN /\ saveJob(id, job)
          /\ tasks' = [tasks EXCEPT ![t].pc = "delay", ![t].job = job]
          /\ hist' = [hist EXCEPT ![id].attempts = IF hist[id].live THEN @ + 1 ELSE @]
    /\ UNCHANGED <<calls, accepted, response>>

\* simulateProcessingResult(job), on the copy the step holds
completedJob(job) ==
    [job EXCEPT !.status = COMPLETED, !.message = MsgCompleted,
                !.documentId = IF job.type = DOCUMENT THEN "doc" ELSE @]

\* faulty variant: the retry is recorded without counting it
retryingJob_notCounted(job, category) ==
    [job EXCEPT !.lastErrorMessage = category, !.errorDetails = category,
                !.status = RETRYING, !.message = MsgRetrying]

retryingJob(job, category) ==
    [job EXCEPT !.lastErrorMessage = category, !.errorDetails = category,
                !.retryAttempts = @ + 1,
                !.status = RETRYING, !.message = MsgRetrying]

failedJob(job, category) ==
    [job EXCEPT !.lastErrorMessage = category, !.errorDetails = category,
                !.status = FAILED, !.message = MsgFailedAfter]

simulateProcessingResult(job, outcome) ==
    IF outcome = SUCCESS THEN completedJob(job)
    ELSE IF shouldRetryError(outcome, job.retryAttempts)
         THEN retryingJob(job, outcome)
         ELSE failedJob(job, outcome)

\* faulty variant: the delay is computed from the count before the increment
scheduledAttempt_beforeIncrement(job) == job.retryAttempts - 1

\* calculateRetryDelay(job.retryAttempts), after job.retryAttempts += 1
scheduledAttempt(job) == job.retryAttempts

\* the delay is over: the outcome is drawn, the job saved, and on a retry the
\* timer set that will call processIngestionAsync again
processOutcome(t, outcome) ==
    /\ tasks[t].pc = "delay"
    /\ LET id == tasks[t].id
           job == simulateProcessingResult(tasks[t].job, outcome)
       IN /\ saveJob(id, job)
          /\ tasks' = [tasks EXCEPT
                 ![t].pc = IF job.status = RETRYING THEN "timer" ELSE "done",
                 ![t].attempt = IF job.status = RETRYING
                                THEN scheduledAttempt(job) ELSE 0,
                 ![t].job = NoJob]
          /\ hist' = [hist EXCEPT
                 ![id].retryings = IF hist[id].live /\ job.status = RETRYING
                                   THEN @ + 1 ELSE @,
                 ![id].outcomes = IF hist[id].live THEN Append(@, outcome) ELSE @]
    /\ UNCHANGED <<calls, accepted, response>>

\* the catch block of processIngestionAsync.  A persistence operation of the
\* step rejects: the step enters the catch block and its reload is pending.
MsgUnexpected == "Unexpected error during processing"
PersistenceError == "persistence error"
StackAndTimestamp == "stack and timestamp"

processFindFails(t) ==
    /\ tasks[t].pc = "find"
    /\ tasks' = [tasks EXCEPT ![t].pc = "recover", ![t].job = NoJob]
    /\ UNCHANGED <<jobs, calls, accepted, response, hist>>

processSaveFails(t) ==
    /\ tasks[t].pc = "loaded"
    /\ tasks' = [tasks EXCEPT ![t].pc = "recover", ![t].job = NoJob]
    /\ UNCHANGED <<jobs, calls, accepted, response, hist>>

\* the save inside simulateProcessingResult rejects, whatever outcome was
\* drawn: nothing is stored and the setTimeout after the save is not reached
processOutcomeFails(t) ==
    /\ tasks[t].pc = "delay"
    /\ tasks' = [tasks EXCEPT ![t].pc = "recover", ![t].job = NoJob]
    /\ UNCHANGED <<jobs, calls, accepted, response, hist>>

\* the reload in the catch block resolves
recoverFind(t) ==
    /\ tasks[t].pc = "recover"
    /\ IF tasks[t].id \in DOMAIN jobs
       THEN tasks' = [tasks EXCEPT ![t].pc = "recovered",
                                   ![t].job = jobs[tasks[t].id]]
       ELSE tasks' = [tasks EXCEPT ![t].pc = "done"]
    /\ UNCHANGED <<jobs, calls, accepted, response, hist>>

\* the reload rejects: the inner catch logs, the step ends
recoverFindFails(t) ==
    /\ tasks[t].pc = "recover"
    /\ tasks' = [tasks EXCEPT ![t].pc = "done", ![t].job = NoJob]
    /\ UNCHANGED <<jobs, calls, accepted, response, hist>>

unexpectedlyFailedJob(job) ==
    [job EXCEPT !.status = FAILED, !.message = MsgUnexpected,
                !.lastErrorMessage = PersistenceError,
                !.errorDetails = StackAndTimestamp]

\* the save in the catch block resolves: the step ends
recoverSave(t) ==
    /\ tasks[t].pc = "recovered"
    /\ saveJob(tasks[t].id, unexpectedlyFailedJob(tasks[t].job))
    /\ tasks' = [tasks EXCEPT ![t].pc = "done", ![t].job = NoJob]
    /\ UNCHANGED <<calls, accepted, response, hist>>

\* the save in the catch block rejects: the inner catch logs, the step ends
recoverSaveFails(t) ==
    /\ tasks[t].pc = "recovered"
    /\ tasks' = [tasks EXCEPT ![t].pc = "done", ![t].job = NoJob]
    /\ UNCHANGED <<jobs, calls, accepted, response, hist>>

\* the retry timer fires: processIngestionAsync(job.id) starts over
timerFires(t) ==
    /\ tasks[t].pc = "timer"
    /\ tasks' = [tasks EXCEPT ![t].pc = "find", ![t].job = NoJob,
                               ![t].attempt = 0]
    /\ UNCHANGED <<jobs, calls, accepted, response, hist>>

\* ------------------------------------------------------------ call slots
FreeSlot(c) ==
    /\ calls[c].op = "idle"
    /\ \A d \in 1..(c - 1) : calls[d].op # "idle"

\* ----------------------------------------------------------------- Cancel
canceledJob(job) == [job EXCEPT !.status = FAILED, !.message = MsgCanceled]

\* faulty variant: a FAILED job is accepted for cancellation
cancelRejects_onlyCompleted(job) == job.status = COMPLETED

cancelRejects(job) == job.status = COMPLETED \/ job.status = FAILED

\* cancelIngestion up to its save: findOne, NotFound, BadRequest; an accepted
\* call holds the entity it loaded
cancelFind(id) ==
    /\ IF id \notin DOMAIN jobs
       THEN /\ response' = [op |-> "cancel", result |-> "NotFound"]
            /\ UNCHANGED <<calls, accepted, hist>>
       ELSE IF cancelRejects(jobs[id])
       THEN /\ response' = [op |-> "cancel", result |-> "BadRequest"]
            /\ UNCHANGED <<calls, accepted, hist>>
       ELSE /\ accepted < MaxManualCalls
            /\ \E c \in 1..MaxPending :
                 /\ FreeSlot(c)
                 /\ calls' = [calls EXCEPT ![c] =
                        [op |-> "cancel", id |-> id, job |-> jobs[id]]]
            /\ accepted' = accepted + 1
            /\ hist' = [hist EXCEPT ![id] = touchedByCancel(@)]
            /\ UNCHANGED response
    /\ UNCHANGED <<jobs, tasks>>

\* faulty variant: the save of cancelIngestion also ends the steps of the job
cancelSave_stopsSteps(c) ==
    /\ calls[c].op = "cancel"
    /\ saveJob(calls[c].id, canceledJob(calls[c].job))
    /\ tasks' = [t \in DOMAIN tasks |->
                    IF tasks[t].id = calls[c].id
                    THEN [tasks[t] EXCEPT !.pc = "done", !.job = NoJob]
                    ELSE tasks[t]]
    /\ calls' = [calls EXCEPT ![c] = IdleCall]
    /\ response' = [op |-> "cancel", result |-> "ok"]
    /\ UNCHANGED <<accepted, hist>>

\* the save of cancelIngestion and its return
cancelSave(c) ==
    /\ calls[c].op = "cancel"
    /\ saveJob(calls[c].id, canceledJob(calls[c].job))
    /\ calls' = [calls EXCEPT ![c] = IdleCall]
    /\ response' = [op |-> "cancel", result |-> "ok"]
    /\ UNCHANGED <<tasks, accepted, hist>>

\* ------------------------------------------------------------------ Retry
\* faulty variant: the retry counter is not reset
requeuedJob_keepsAttempts(job) ==
    [job EXCEPT !.status = PENDING, !.message = MsgQueuedRetry]

requeuedJob(job) ==
    [job EXCEPT !.retryAttempts = 0, !.status = PENDING, !.message = MsgQueuedRetry]

retryRejects(job) == job.status # FAILED

retryFind(id) ==
    /\ IF id \notin DOMAIN jobs
       THEN /\ response' = [op |-> "retry", result |-> "NotFound"]
            /\ UNCHANGED <<calls, accepted, hist>>
       ELSE IF retryRejects(jobs[id])
       THEN /\ response' = [op |-> "retry", result |-> "BadRequest"]
            /\ UNCHANGED <<calls, accepted, hist>>
       ELSE /\ accepted < MaxManualCalls
            /\ \E c \in 1..MaxPending :
                 /\ FreeSlot(c)
                 /\ calls' = [calls EXCEPT ![c] =
                        [op |-> "retry", id |-> id, job |-> jobs[id]]]
            /\ accepted' = accepted + 1
            /\ hist' = [hist EXCEPT ![id] =
                        touchedByRetry(@, \E t \in DOMAIN tasks :
                            tasks[t].id = id /\ tasks[t].pc # "done")]
            /\ UNCHANGED response
    /\ UNCHANGED <<jobs, tasks>>

\* the save of retryIngestion, the start of the new background step, the return
retrySave(c) ==
    /\ calls[c].op = "retry"
    /\ saveJob(calls[c].id, requeuedJob(calls[c].job))
    /\ tasks' = Append(tasks, newTask(calls[c].id))
    /\ calls' = [calls EXCEPT ![c] = IdleCall]
    /\ response' = [op |-> "retry", result |-> "ok"]
    /\ UNCHANGED <<accepted, hist>>

\* ============================================================ AuthService
Emails == {"a@example.com", "b@example.com"}
Passwords == {"secret", "guess"}
USER == "user"

\* bcrypt.hash / bcrypt.compare: the digest of a password matches that
\* password and no other
hash(password) == <<"bcrypt", password>>
compare(password, digest) == digest = hash(password)

NoToken == [userId |-> 0, isRevoked |-> FALSE, expiresAt |-> 0,
            parent |-> 0, rotations |-> 0]
IdleRefresh == [pc |-> "idle", token |-> 0, entity |-> NoToken,
                expiresAt |-> 0, issued |-> 0]
RefreshSlots == 1..MaxRefreshCalls
TokenValues == 1..MaxTokens

\* refresh tokens that exist or that a call in flight is about to create
Issuing == {r \in RefreshSlots : refreshes[r].pc = "issue"}
RoomForToken == Len(tokens) + Cardinality(Issuing) < MaxTokens

\* usersService.findByEmail
findByEmail(email) == {u \in DOMAIN users : users[u].email = email}

\* createRefreshToken(user): a new entity with a fresh value (its index),
\* not revoked, expiring RefreshTokenDays after `created`. parent records the
\* token it was rotated from (0: issued by login or register).
newRefreshToken(userId, created, parent) ==
    [userId |-> userId, isRevoked |-> FALSE,
     expiresAt |-> created + RefreshTokenDays,
     parent |-> parent, rotations |-> 0]

\* login: validateUser, then generateTokens
\* faulty variant: the password is not compared
validateUser_anyPassword(email, password) == findByEmail(email)

validateUser(email, password) ==
    {u \in findByEmail(email) : compare(password, users[u].password)}

login(email, password) ==
    /\ IF validateUser(email, password) = {}
       THEN /\ authResponse' = [op |-> "login", result |-> "Unauthorized",
                                presented |-> 0, refresh_token |-> 0]
            /\ UNCHANGED tokens
       ELSE /\ RoomForToken
            /\ \E u \in validateUser(email, password) :
                   tokens' = Append(tokens, newRefreshToken(u, now, 0))
            /\ authResponse' = [op |-> "login", result |-> "ok",
                                presented |-> 0, refresh_token |-> Len(tokens) + 1]
    /\ UNCHANGED <<users, now, refreshes>>

\* register: Conflict on a known email, else create the user and its tokens
register(email, password) ==
    /\ IF findByEmail(email) # {}
       THEN /\ authResponse' = [op |-> "register", result |-> "Conflict",
                                presented |-> 0, refresh_token |-> 0]
            /\ UNCHANGED <<users, tokens>>
       ELSE /\ RoomForToken
            /\ users' = Append(users, [email |-> email,
                                       password |-> hash(password), role |-> USER])
            /\ tokens' = Append(tokens, newRefreshToken(Len(users) + 1, now, 0))
            /\ authResponse' = [op |-> "register", result |-> "ok",
                                presented |-> 0, refresh_token |-> Len(tokens) + 1]
    /\ UNCHANGED <<now, refreshes>>

\* login and register, one action per stretch between their awaits
SigninSlots == 1..MaxSignins
IdleSignin == [pc |-> "idle", email |-> "none", password |-> "none", user |-> 0]
FreeSignin(i) ==
    /\ signins[i].pc = "idle"
    /\ \A j \in 1..(i - 1) : signins[j].pc # "idle"
\* refresh tokens that exist or that a login or register in flight may create
RoomForSignin ==
    Len(tokens) + Cardinality({i \in SigninSlots : signins[i].pc # "idle"})
        < MaxTokens

\* login up to the save of the refresh token: validateUser (findByEmail,
\* validatePassword), Unauthorized, generateTokens up to createRefreshToken
loginValidate(email, password) ==
    /\ IF validateUser(email, password) = {}
       THEN /\ authResponse' = [op |-> "login", result |-> "Unauthorized",
                                presented |-> 0, refresh_token |-> 0]
            /\ UNCHANGED signins
       ELSE /\ RoomForSignin
            /\ \E i \in SigninSlots : \E u \in validateUser(email, password) :
                 /\ FreeSignin(i)
                 /\ signins' = [signins EXCEPT ![i] =
                        [pc |-> "login", email |-> email,
                         password |-> password, user |-> u]]
            /\ UNCHANGED authResponse
    /\ UNCHANGED <<users, tokens>>

\* the save of createRefreshToken resolves and login returns the tokens
loginIssue(i) ==
    /\ signins[i].pc = "login"
    /\ tokens' = Append(tokens, newRefreshToken(signins[i].user, now, 0))
    /\ authResponse' = [op |-> "login", result |-> "ok",
                        presented |-> 0, refresh_token |-> Len(tokens) + 1]
    /\ signins' = [signins EXCEPT ![i] = IdleSignin]
    /\ UNCHANGED users

\* register up to usersService.create: findByEmail resolves, Conflict
registerFind(email, password) ==
    /\ IF findByEmail(email) # {}
       THEN /\ authResponse' = [op |-> "register", result |-> "Conflict",
                                presented |-> 0, refresh_token |-> 0]
            /\ UNCHANGED signins
       ELSE /\ RoomForSignin
            /\ \E i \in SigninSlots :
                 /\ FreeSignin(i)
                 /\ signins' = [signins EXCEPT ![i] =
                        [pc |-> "create", email |-> email,
                         password |-> password, user |-> 0]]
            /\ UNCHANGED authResponse
    /\ UNCHANGED <<users, tokens>>

\* the insert of usersService.create resolves, or is rejected by the unique
\* index on email when another register has inserted the email meanwhile:
\* the rejection is no ConflictException and leaves register as it is
registerCreate(i) ==
    /\ signins[i].pc = "create"
    /\ IF findByEmail(signins[i].email) # {}
       THEN /\ authResponse' = [op |-> "register", result |-> "QueryFailed",
                                presented |-> 0, refresh_token |-> 0]
            /\ signins' = [signins EXCEPT ![i] = IdleSignin]
            /\ UNCHANGED users
       ELSE /\ users' = Append(users, [email |-> signins[i].email,
                                       password |-> hash(signins[i].password),
                                       role |-> USER])
            /\ signins' = [signins EXCEPT ![i].pc = "token",
                                          ![i].user = Len(users) + 1]
            /\ UNCHANGED authResponse
    /\ UNCHANGED tokens

\* the save of createRefreshToken resolves and register returns the tokens
registerIssue(i) ==
    /\ signins[i].pc = "token"
    /\ tokens' = Append(tokens, newRefreshToken(signins[i].user, now, 0))
    /\ authResponse' = [op |-> "register", result |-> "ok",
                        presented |-> 0, refresh_token |-> Len(tokens) + 1]
    /\ signins' = [signins EXCEPT ![i] = IdleSignin]
    /\ UNCHANGED users

\* refreshToken, first stretch: findOne by value resolves; Unauthorized when
\* absent or revoked; an expired entity is marked revoked and its save
\* awaited; otherwise generateTokens starts and the save of the new refresh
\* token is awaited
\* faulty variant: a revoked token is accepted
usable_always(entity) == TRUE

usable(entity) == ~entity.isRevoked
\* faulty variant: a token is expired from the instant of its expiresAt
expired_atExpiry(entity, time) == time >= entity.expiresAt

expired(entity, time) == time > entity.expiresAt

FreeRefresh(r) ==
    /\ refreshes[r].pc = "idle"
    /\ \A q \in 1..(r - 1) : refreshes[q].pc # "idle"

refreshFind(value) ==
    /\ IF value \notin DOMAIN tokens \/ ~usable(tokens[value])
       THEN /\ authResponse' = [op |-> "refresh", result |-> "Unauthorized",
                                presented |-> value, refresh_token |-> 0]
            /\ UNCHANGED refreshes
       ELSE /\ expired(tokens[value], now) \/ RoomForToken
            /\ \E r \in RefreshSlots :
                 /\ FreeRefresh(r)
                 /\ refreshes' = [refreshes EXCEPT ![r] =
                        [pc |-> IF expired(tokens[value], now)
                                THEN "expire" ELSE "issue",
                         token |-> value, entity |-> tokens[value],
                         expiresAt |-> now + RefreshTokenDays, issued |-> 0]]
            /\ UNCHANGED authResponse
    /\ UNCHANGED <<users, tokens, now>>

\* faulty variant: the consumed token is saved as it was loaded
revokedEntity_notRevoked(entity) == entity

\* refreshTokenEntity.isRevoked = true
revokedEntity(entity) == [entity EXCEPT !.isRevoked = TRUE]

\* refreshTokenRepository.save(entity) for a stored token: the entity's
\* columns are written; parent and rotations are history, not columns
saveToken(tok, value, entity) ==
    [tok EXCEPT ![value] = [entity EXCEPT !.parent = tok[value].parent,
                                          !.rotations = tok[value].rotations]]

\* the save of the expired token is done: throw Unauthorized
refreshExpire(r) ==
    /\ refreshes[r].pc = "expire"
    /\ tokens' = saveToken(tokens, refreshes[r].token,
                           revokedEntity(refreshes[r].entity))
    /\ refreshes' = [refreshes EXCEPT ![r] = IdleRefresh]
    /\ authResponse' = [op |-> "refresh", result |-> "Unauthorized",
                        presented |-> refreshes[r].token, refresh_token |-> 0]
    /\ UNCHANGED <<users, now>>

\* refreshTokenEntity.user: the user the new tokens are generated for
\* faulty variant: the tokens are generated for the first user
tokenUser_first(entity) == 1

tokenUser(entity) == entity.userId

\* the save of the new refresh token is done; the consumed entity is marked
\* revoked and its save awaited
refreshIssue(r) ==
    /\ refreshes[r].pc = "issue"
    /\ tokens' = Append(tokens,
                        [newRefreshToken(tokenUser(refreshes[r].entity), 0,
                                         refreshes[r].token)
                            EXCEPT !.expiresAt = refreshes[r].expiresAt])
    /\ refreshes' = [refreshes EXCEPT ![r].pc = "revoke",
                                      ![r].issued = Len(tokens) + 1]
    /\ UNCHANGED <<users, now, authResponse>>

\* a save of refreshToken rejects: the call ends with the error of the
\* repository, and what the call has saved before stays as it is
QueryFailed(value) ==
    [op |-> "refresh", result |-> "QueryFailed",
     presented |-> value, refresh_token |-> 0]

\* the save of the expired token rejects
refreshExpireFails(r) ==
    /\ refreshes[r].pc = "expire"
    /\ refreshes' = [refreshes EXCEPT ![r] = IdleRefresh]
    /\ authResponse' = QueryFailed(refreshes[r].token)
    /\ UNCHANGED <<users, tokens, now>>

\* the save of the new refresh token in createRefreshToken rejects
refreshIssueFails(r) ==
    /\ refreshes[r].pc = "issue"
    /\ refreshes' = [refreshes EXCEPT ![r] = IdleRefresh]
    /\ authResponse' = QueryFailed(refreshes[r].token)
    /\ UNCHANGED <<users, tokens, now>>

\* the save of the consumed token rejects, after the new token was saved
refreshRevokeFails(r) ==
    /\ refreshes[r].pc = "revoke"
    /\ refreshes' = [refreshes EXCEPT ![r] = IdleRefresh]
    /\ authResponse' = QueryFailed(refreshes[r].token)
    /\ UNCHANGED <<users, tokens, now>>

\* faulty variant: the consumed token is saved as the call loaded it
refreshRevoke_savesLoaded(r) ==
    /\ refreshes[r].pc = "revoke"
    /\ LET saved == saveToken(tokens, refreshes[r].token, refreshes[r].entity)
       IN tokens' = [saved EXCEPT ![refreshes[r].token].rotations = @ + 1]
    /\ refreshes' = [refreshes EXCEPT ![r] = IdleRefresh]
    /\ authResponse' = [op |-> "refresh", result |-> "ok",
                        presented |-> refreshes[r].token,
                        refresh_token |-> refreshes[r].issued]
    /\ UNCHANGED <<users, now>>

\* the save of the consumed token is done: return the new tokens
refreshRevoke(r) ==
    /\ refreshes[r].pc = "revoke"
    /\ LET saved == saveToken(tokens, refreshes[r].token,
                              revokedEntity(refreshes[r].entity))
       IN tokens' = [saved EXCEPT ![refreshes[r].token].rotations = @ + 1]
    /\ refreshes' = [refreshes EXCEPT ![r] = IdleRefresh]
    /\ authResponse' = [op |-> "refresh", result |-> "ok",
                        presented |-> refreshes[r].token,
                        refresh_token |-> refreshes[r].issued]
    /\ UNCHANGED <<users, now>>

\* ------------------------------------------------- logout, JwtStrategy
\* An access token is the signed payload: `sub` is the subject it names and
\* `genuine` tells whether its signature is the one jwtService.sign made
\* (a genuine token names a user that generateTokens was called for).
\* `fresh` is an input of each call: whether the token is within its
\* lifetime at that moment.
NoAccessToken == [sub |-> 0, genuine |-> FALSE]
AccessTokens == [sub : 1..MaxUsers, genuine : BOOLEAN]
Issued(token) == token.genuine => token.sub \in DOMAIN users

\* jwtService.verify: the payload, or an exception
verifies(token, fresh) == token.genuine /\ fresh

\* faulty variant: the payload is read without verifying the token
getUserIdFromToken_unverified(token, fresh) == token.sub

\* getUserIdFromToken: decoded.sub, or null (0) when verify throws
getUserIdFromToken(token, fresh) ==
    IF verifies(token, fresh) THEN token.sub ELSE 0

\* faulty variant: the blacklist is not consulted
isTokenBlacklisted_never(token) == FALSE

isTokenBlacklisted(token) == token \in blacklist

LogoutSlots == 1..MaxLogoutCalls
IdleLogout == [pc |-> "idle", token |-> NoAccessToken, userId |-> 0,
               queue |-> <<>>, read |-> {}]
LogoutDone(token) == [op |-> "logout", token |-> token, result |-> "ok"]

FreeLogout(l) ==
    /\ logouts[l].pc = "idle"
    /\ \A k \in 1..(l - 1) : logouts[k].pc # "idle"

\* faulty variant: a token that does not decode is not blacklisted
blacklisted_onlyDecoded(token, fresh) ==
    IF verifies(token, fresh) THEN blacklist \cup {token} ELSE blacklist

\* this.tokenBlacklist.add(token)
blacklisted(token, fresh) == blacklist \cup {token}

\* logout up to its first await: the token is blacklisted; when it decodes,
\* revokeRefreshTokensForUser starts and its find is awaited, otherwise the
\* call returns the success message
logout(token, fresh) ==
    /\ Issued(token)
    /\ blacklist' = blacklisted(token, fresh)
    /\ IF getUserIdFromToken(token, fresh) = 0
       THEN /\ authResponse' = LogoutDone(token)
            /\ UNCHANGED logouts
       ELSE /\ \E l \in LogoutSlots :
                 /\ FreeLogout(l)
                 /\ logouts' = [logouts EXCEPT ![l] =
                        [pc |-> "find", token |-> token,
                         userId |-> getUserIdFromToken(token, fresh),
                         queue |-> <<>>, read |-> {}]]
            /\ UNCHANGED authResponse
    /\ UNCHANGED <<users, tokens, now, refreshes>>

\* faulty variant: the owner is not part of the where clause
whereClause_anyUser(entity, userId) == ~entity.isRevoked

\* where: { userId, isRevoked: false }
whereClause(entity, userId) == entity.userId = userId /\ ~entity.isRevoked

\* refreshTokenRepository.find({ where: { userId, isRevoked: false } })
RECURSIVE findNotRevoked(_, _, _)
findNotRevoked(tok, userId, from) ==
    IF from > Len(tok) THEN <<>>
    ELSE IF whereClause(tok[from], userId)
         THEN <<[value |-> from, entity |-> tok[from]]>>
                  \o findNotRevoked(tok, userId, from + 1)
         ELSE findNotRevoked(tok, userId, from + 1)

\* the find of revokeRefreshTokensForUser resolves: the first entity is
\* marked revoked and its save awaited; with nothing found logout returns
logoutFind(l) ==
    /\ logouts[l].pc = "find"
    /\ LET found == findNotRevoked(tokens, logouts[l].userId, 1)
       IN IF found = <<>>
          THEN /\ logouts' = [logouts EXCEPT ![l] = IdleLogout]
               /\ authResponse' = LogoutDone(logouts[l].token)
          ELSE /\ logouts' = [logouts EXCEPT
                      ![l].pc = "save", ![l].queue = found,
                      ![l].read = {found[i].value : i \in DOMAIN found}]
               /\ UNCHANGED authResponse
    /\ UNCHANGED <<users, tokens, now, refreshes, blacklist>>

\* a save of the loop is done: the next entity is marked revoked and its
\* save awaited; after the last one logout returns
logoutSave(l) ==
    /\ logouts[l].pc = "save"
    /\ LET head == Head(logouts[l].queue)
       IN tokens' = saveToken(tokens, head.value, revokedEntity(head.entity))
    /\ IF Len(logouts[l].queue) = 1
       THEN /\ logouts' = [logouts EXCEPT ![l] = IdleLogout]
            /\ authResponse' = LogoutDone(logouts[l].token)
       ELSE /\ logouts' = [logouts EXCEPT ![l].queue = Tail(@)]
            /\ UNCHANGED authResponse
    /\ UNCHANGED <<users, now, refreshes, blacklist>>

\* request authentication: passport-jwt verifies signature and expiry, then
\* JwtStrategy.validate checks the blacklist and loads the user
MsgInvalidated == "Token has been invalidated"
Rejected(token, message) ==
    [op |-> "validate", token |-> token, result |-> "Unauthorized",
     message |-> message]
Authenticated(token) ==
    [op |-> "validate", token |-> token, result |-> "ok", message |-> "none"]

validate(token, fresh) ==
    /\ Issued(token)
    /\ authResponse' =
          IF ~verifies(token, fresh) THEN Rejected(token, "none")
          ELSE IF isTokenBlacklisted(token) THEN Rejected(token, MsgInvalidated)
          ELSE IF token.sub \in DOMAIN users THEN Authenticated(token)
          ELSE Rejected(token, "none")
    /\ UNCHANGED <<users, tokens, now, refreshes, blacklist, logouts>>

\* time passes: the clock is read once per refresh-token lifetime, so a
\* token is seen before, exactly at, and after its expiresAt
tick(days) ==
    /\ now + days <= MaxNow
    /\ now' = now + days
    /\ UNCHANGED <<users, tokens, refreshes, authResponse>>

\* ---------------------------------------------------------- specification
\* the service objects as constructed
Constructed ==
    /\ jobs = <<>>
    /\ tasks = <<>>
    /\ calls = [c \in 1..MaxPending |-> IdleCall]
    /\ accepted = 0
    /\ response = [op |-> "none", result |-> "none"]
    /\ hist = <<>>
    /\ users = <<>>
    /\ tokens = <<>>
    /\ now = 0
    /\ refreshes = [r \in RefreshSlots |-> IdleRefresh]
    /\ authResponse = [op |-> "none", result |-> "none",
                       presented |-> 0, refresh_token |-> 0]
    /\ blacklist = {}
    /\ logouts = [l \in LogoutSlots |-> IdleLogout]
    /\ batch = NoBatch
    /\ faults = 0
    /\ signins = [i \in SigninSlots |-> IdleSignin]

Init == Constructed /\ probe = NoProbe

Trigger ==
    /\ Len(jobs) < MaxJobs
    /\ \E type \in RequestTypes : triggerIngestion(type)
    /\ UNCHANGED <<authVars, policyVars, accountVars, batch, faults>>
ProcessFind ==
    /\ \E t \in DOMAIN tasks : processFind(t)
    /\ UNCHANGED <<authVars, policyVars, accountVars, batch, faults>>
ProcessSave ==
    /\ \E t \in DOMAIN tasks : processSave(t)
    /\ UNCHANGED <<authVars, policyVars, accountVars, batch, faults>>
ProcessOutcome ==
    /\ \E t \in DOMAIN tasks : \E o \in Outcomes : processOutcome(t, o)
    /\ UNCHANGED <<authVars, policyVars, accountVars, batch, faults>>
TimerFires ==
    /\ \E t \in DOMAIN tasks : timerFires(t)
    /\ UNCHANGED <<authVars, policyVars, accountVars, batch, faults>>
CancelFind ==
    /\ \E id \in JobIds : cancelFind(id)
    /\ UNCHANGED <<authVars, policyVars, accountVars, batch, faults>>
CancelSave ==
    /\ \E c \in 1..MaxPending : cancelSave(c)
    /\ UNCHANGED <<authVars, policyVars, accountVars, batch, faults>>
RetryFind ==
    /\ \E id \in JobIds : retryFind(id)
    /\ UNCHANGED <<authVars, policyVars, accountVars, batch, faults>>
RetrySave ==
    /\ \E c \in 1..MaxPending : retrySave(c)
    /\ UNCHANGED <<authVars, policyVars, accountVars, batch, faults>>

Next ==
    \/ Trigger
    \/ ProcessFind
    \/ ProcessSave
    \/ ProcessOutcome
    \/ TimerFires
    \/ CancelFind
    \/ CancelSave
    \/ RetryFind
    \/ RetrySave

Spec == Init /\ [][Next]_vars

\* fair scheduling: the event loop runs every continuation that is ready and
\* every timer that is due, so no step of processIngestionAsync waits for ever
MaxSteps == MaxJobs + MaxManualCalls
StepOf(t) ==
    /\ t \in DOMAIN tasks
    /\ \/ processFind(t)
       \/ processSave(t)
       \/ \E outcome \in Outcomes : processOutcome(t, outcome)
       \/ timerFires(t)
    /\ UNCHANGED <<authVars, policyVars, accountVars, batch, faults>>

LiveSpec == Init /\ [][Next]_vars /\ \A t \in 1..MaxSteps : WF_vars(StepOf(t))

\* persistence failures: the calls and steps of Spec, with up to MaxFaults
\* persistence operations of the processing steps rejecting
ProcessFindFails ==
    /\ faults < MaxFaults
    /\ \E t \in DOMAIN tasks : processFindFails(t)
    /\ faults' = faults + 1
    /\ UNCHANGED <<authVars, policyVars, accountVars, batch>>
ProcessSaveFails ==
    /\ faults < MaxFaults
    /\ \E t \in DOMAIN tasks : processSaveFails(t)
    /\ faults' = faults + 1
    /\ UNCHANGED <<authVars, policyVars, accountVars, batch>>
ProcessOutcomeFails ==
    /\ faults < MaxFaults
    /\ \E t \in DOMAIN tasks : processOutcomeFails(t)
    /\ faults' = faults + 1
    /\ UNCHANGED <<authVars, policyVars, accountVars, batch>>
RecoverFind ==
    /\ \E t \in DOMAIN tasks : recoverFind(t)
    /\ UNCHANGED <<authVars, policyVars, accountVars, batch, faults>>
RecoverFindFails ==
    /\ faults < MaxFaults
    /\ \E t \in DOMAIN tasks : recoverFindFails(t)
    /\ faults' = faults + 1
    /\ UNCHANGED <<authVars, policyVars, accountVars, batch>>
RecoverSave ==
    /\ \E t \in DOMAIN tasks : recoverSave(t)
    /\ UNCHANGED <<authVars, policyVars, accountVars, batch, faults>>
RecoverSaveFails ==
    /\ faults < MaxFaults
    /\ \E t \in DOMAIN tasks : recoverSaveFails(t)
    /\ faults' = faults + 1
    /\ UNCHANGED <<authVars, policyVars, accountVars, batch>>

NextFault ==
    \/ Trigger
    \/ ProcessFind
    \/ ProcessSave
    \/ ProcessOutcome
    \/ TimerFires
    \/ CancelFind
    \/ CancelSave
    \/ RetryFind
    \/ RetrySave
    \/ ProcessFindFails
    \/ ProcessSaveFails
    \/ ProcessOutcomeFails
    \/ RecoverFind
    \/ RecoverFindFails
    \/ RecoverSave
    \/ RecoverSaveFails

FaultSpec == Init /\ [][NextFault]_vars

\* lookups: the calls of Spec, made with the ids of existing jobs and with
\* one id that no job has, and GetStatus calls
LookupIds == 1..(MaxJobs + 1)
CancelLookup ==
    /\ \E id \in LookupIds : cancelFind(id)
    /\ UNCHANGED <<authVars, policyVars, accountVars, batch, faults>>
RetryLookup ==
    /\ \E id \in LookupIds : retryFind(id)
    /\ UNCHANGED <<authVars, policyVars, accountVars, batch, faults>>
GetStatusLookup ==
    /\ \E id \in LookupIds : getIngestionStatus(id)
    /\ UNCHANGED <<authVars, policyVars, accountVars, batch, faults>>

NextLookup ==
    \/ Trigger
    \/ ProcessFind
    \/ ProcessSave
    \/ ProcessOutcome
    \/ TimerFires
    \/ CancelLookup
    \/ CancelSave
    \/ RetryLookup
    \/ RetrySave
    \/ GetStatusLookup

LookupSpec == Init /\ [][NextLookup]_vars

\* intake: Trigger, BatchTrigger and GetStatus calls with the processing
\* steps they start, and no Cancel or Retry call
TriggerIntake ==
    /\ Len(jobs) + Reserved < MaxIntake
    /\ \E type \in RequestTypes : triggerIngestion(type)
    /\ UNCHANGED <<authVars, policyVars, accountVars, batch, faults>>
BatchIngestion ==
    /\ \E requests \in BatchRequests :
          /\ Len(jobs) + Len(requests) <= MaxIntake
          /\ batchIngestion(requests)
    /\ UNCHANGED <<authVars, policyVars, accountVars, faults>>
BatchTrigger == batchTrigger /\ UNCHANGED <<authVars, policyVars, accountVars, faults>>
GetStatus ==
    /\ \E id \in 1..MaxIntake : getIngestionStatus(id)
    /\ UNCHANGED <<authVars, policyVars, accountVars, batch, faults>>

NextIntake ==
    \/ TriggerIntake
    \/ BatchIngestion
    \/ BatchTrigger
    \/ GetStatus
    \/ ProcessFind
    \/ ProcessSave
    \/ ProcessOutcome
    \/ TimerFires

IntakeSpec == Init /\ [][NextIntake]_vars

\* IntakeSpec without GetStatus, with up to MaxFaults triggerIngestion calls
\* of a batch rejecting
BatchTriggerFails ==
    /\ faults < MaxFaults
    /\ batchTriggerFails
    /\ faults' = faults + 1
    /\ UNCHANGED <<authVars, policyVars, accountVars>>

NextBatchFault ==
    \/ TriggerIntake
    \/ BatchIngestion
    \/ BatchTrigger
    \/ BatchTriggerFails
    \/ ProcessFind
    \/ ProcessSave
    \/ ProcessOutcome
    \/ TimerFires

BatchFaultSpec == Init /\ [][NextBatchFault]_vars

\* the AuthService on its own
Login ==
    /\ \E email \in Emails : \E password \in Passwords : login(email, password)
    /\ UNCHANGED <<ingestionVars, sessionVars, policyVars, accountVars>>
Register ==
    /\ \E email \in Emails : \E password \in Passwords : register(email, password)
    /\ UNCHANGED <<ingestionVars, sessionVars, policyVars, accountVars>>
RefreshFind ==
    /\ \E value \in TokenValues : refreshFind(value)
    /\ UNCHANGED <<ingestionVars, sessionVars, policyVars, accountVars>>
RefreshExpire ==
    /\ \E r \in RefreshSlots : refreshExpire(r)
    /\ UNCHANGED <<ingestionVars, sessionVars, policyVars, accountVars>>
RefreshIssue ==
    /\ \E r \in RefreshSlots : refreshIssue(r)
    /\ UNCHANGED <<ingestionVars, sessionVars, policyVars, accountVars>>
RefreshRevoke ==
    /\ \E r \in RefreshSlots : refreshRevoke(r)
    /\ UNCHANGED <<ingestionVars, sessionVars, policyVars, accountVars>>
Tick == tick(RefreshTokenDays) /\ UNCHANGED <<ingestionVars, sessionVars, policyVars, accountVars>>

Logout ==
    /\ \E token \in AccessTokens : \E fresh \in BOOLEAN : logout(token, fresh)
    /\ UNCHANGED <<ingestionVars, policyVars, accountVars>>
LogoutFind == (\E l \in LogoutSlots : logoutFind(l)) /\ UNCHANGED <<ingestionVars, policyVars, accountVars>>
LogoutSave == (\E l \in LogoutSlots : logoutSave(l)) /\ UNCHANGED <<ingestionVars, policyVars, accountVars>>
Validate ==
    /\ \E token \in AccessTokens : \E fresh \in BOOLEAN : validate(token, fresh)
    /\ UNCHANGED <<ingestionVars, policyVars, accountVars>>

NextAuth ==
    \/ Login
    \/ Register
    \/ RefreshFind
    \/ RefreshExpire
    \/ RefreshIssue
    \/ RefreshRevoke
    \/ Tick

AuthSpec == Init /\ [][NextAuth]_vars

\* AuthSpec with up to MaxFaults saves of refreshToken rejecting
ingestionState == <<jobs, tasks, calls, accepted, response, hist, batch>>
RefreshExpireFails ==
    /\ faults < MaxFaults
    /\ \E r \in RefreshSlots : refreshExpireFails(r)
    /\ faults' = faults + 1
    /\ UNCHANGED <<ingestionState, sessionVars, policyVars, accountVars>>
RefreshIssueFails ==
    /\ faults < MaxFaults
    /\ \E r \in RefreshSlots : refreshIssueFails(r)
    /\ faults' = faults + 1
    /\ UNCHANGED <<ingestionState, sessionVars, policyVars, accountVars>>
RefreshRevokeFails ==
    /\ faults < MaxFaults
    /\ \E r \in RefreshSlots : refreshRevokeFails(r)
    /\ faults' = faults + 1
    /\ UNCHANGED <<ingestionState, sessionVars, policyVars, accountVars>>

NextRefreshFault ==
    \/ Login
    \/ Register
    \/ RefreshFind
    \/ RefreshExpire
    \/ RefreshIssue
    \/ RefreshRevoke
    \/ Tick
    \/ RefreshExpireFails
    \/ RefreshIssueFails
    \/ RefreshRevokeFails

RefreshFaultSpec == Init /\ [][NextRefreshFault]_vars

\* sessions: the calls of the AuthService and request authentication within
\* the lifetime of the tokens issued
NextSession ==
    \/ Login
    \/ Register
    \/ RefreshFind
    \/ RefreshIssue
    \/ RefreshRevoke
    \/ Logout
    \/ LogoutFind
    \/ LogoutSave
    \/ Validate

SessionSpec == Init /\ [][NextSession]_vars

\* accounts: login and register calls, interleaved at their awaits
restOfAuth == <<now, refreshes, blacklist, logouts>>
LoginValidate ==
    /\ \E email \in Emails : \E password \in Passwords :
          loginValidate(email, password)
    /\ UNCHANGED <<ingestionVars, policyVars, restOfAuth>>
LoginIssue ==
    /\ \E i \in SigninSlots : loginIssue(i)
    /\ UNCHANGED <<ingestionVars, policyVars, restOfAuth>>
RegisterFind ==
    /\ \E email \in Emails : \E password \in Passwords :
          registerFind(email, password)
    /\ UNCHANGED <<ingestionVars, policyVars, restOfAuth>>
RegisterCreate ==
    /\ \E i \in SigninSlots : registerCreate(i)
    /\ UNCHANGED <<ingestionVars, policyVars, restOfAuth>>
RegisterIssue ==
    /\ \E i \in SigninSlots : registerIssue(i)
    /\ UNCHANGED <<ingestionVars, policyVars, restOfAuth>>

NextAccount ==
    \/ LoginValidate
    \/ LoginIssue
    \/ RegisterFind
    \/ RegisterCreate
    \/ RegisterIssue

AccountSpec == Init /\ [][NextAccount]_vars

\* the functions of the retry policy, applied to every argument in range
PolicyInit == Constructed /\ probe \in ShouldRetryInputs \cup DelayInputs

ApplyShouldRetryError ==
    applyShouldRetryError /\ UNCHANGED <<ingestionVars, authVars, accountVars>>
ApplyCalculateRetryDelay ==
    applyCalculateRetryDelay /\ UNCHANGED <<ingestionVars, authVars, accountVars>>

NextPolicy ==
    \/ ApplyShouldRetryError
    \/ ApplyCalculateRetryDelay

PolicySpec == PolicyInit /\ [][NextPolicy]_vars

\* ------------------------------------------------------------ vocabulary
TaskIds == DOMAIN tasks
\* the steps of job id that are running or waiting on a retry timer
ActiveTasks(id) == {t \in TaskIds : tasks[t].id = id /\ tasks[t].pc # "done"}
\* no Cancel or Retry call has been accepted for the job
Untouched(id) == hist[id].live
AllIn(seq, S) == \A i \in DOMAIN seq : seq[i] \in S
Retryable == {TRANSIENT, UNKNOWN}

\* ------------------------------------------------------------------ claims

\* C1: in every reachable state, whatever the interleaving of Trigger, Cancel,
\* Retry, processing steps and retry timers, every job's persisted
\* retryAttempts is between 0 and maxRetries.
C1_RetryAttemptsBounded ==
    \A id \in DOMAIN jobs :
        jobs[id].retryAttempts >= 0 /\ jobs[id].retryAttempts <= maxRetries

\* a job that used up all its retries, and was then cancelled while a step
\* still held its copy
C1_Witness ==
    \E id \in DOMAIN jobs :
        /\ jobs[id].retryAttempts = maxRetries
        /\ ~Untouched(id)
        /\ ActiveTasks(id) # {}

\* C2: every change of a job's persisted status follows one of the edges of
\* the state machine: PENDING->PROCESSING, PROCESSING->COMPLETED,
\* PROCESSING->RETRYING, PROCESSING->FAILED, RETRYING->PROCESSING,
\* FAILED->PENDING, and Cancel's PENDING/PROCESSING/RETRYING->FAILED.
StatusEdges ==
    { <<PENDING, PROCESSING>>, <<PROCESSING, COMPLETED>>,
      <<PROCESSING, RETRYING>>, <<PROCESSING, FAILED>>,
      <<RETRYING, PROCESSING>>, <<FAILED, PENDING>>,
      <<PENDING, FAILED>>, <<RETRYING, FAILED>> }

C2_OnlyStatusEdges ==
    [][\A id \in DOMAIN jobs :
          jobs'[id].status # jobs[id].status
              => <<jobs[id].status, jobs'[id].status>> \in StatusEdges]_vars

\* C5: in every reachable state a job's documentId is set exactly when its
\* status is COMPLETED and its type is DOCUMENT.
C5_DocumentIdIffCompletedDocument ==
    \A id \in DOMAIN jobs :
        (jobs[id].documentId # "none")
            <=> (jobs[id].status = COMPLETED /\ jobs[id].type = DOCUMENT)

\* C6: COMPLETED is terminal: once a job's persisted status is COMPLETED no
\* later step changes it.
C6_CompletedIsTerminal ==
    [][\A id \in DOMAIN jobs :
          jobs[id].status = COMPLETED => jobs'[id].status = COMPLETED]_vars

\* C7: with no Cancel or Retry call, after N consecutive failed attempts
\* classified TRANSIENT or UNKNOWN the job's retryAttempts is
\* min(N, maxRetries); and once retryAttempts is maxRetries (three such
\* failures) the next failure, whatever its category, leaves the job FAILED
\* with retryAttempts still maxRetries.
C7_RetryAttemptsCountFailures ==
    \A id \in DOMAIN jobs :
        LET out == hist[id].outcomes
            N == Len(out)
        IN /\ (Untouched(id) /\ AllIn(out, Retryable))
                 => jobs[id].retryAttempts = Min(N, maxRetries)
           /\ (/\ Untouched(id)
               /\ N = maxRetries + 1
               /\ AllIn(SubSeq(out, 1, maxRetries), Retryable)
               /\ out[N] \in ErrorCategory)
                 => /\ jobs[id].status = FAILED
                    /\ jobs[id].retryAttempts = maxRetries

\* three retryable failures followed by a PERMANENT one
C7_Witness ==
    \E id \in DOMAIN jobs :
        /\ Untouched(id)
        /\ hist[id].outcomes = <<TRANSIENT, UNKNOWN, TRANSIENT, PERMANENT>>
        /\ jobs[id].status = FAILED

C9_AllTransientEndsFailed ==
    \A id \in DOMAIN jobs :
        (Untouched(id) /\ AllIn(hist[id].outcomes, {TRANSIENT}))
            => /\ hist[id].retryings = Min(Len(hist[id].outcomes), maxRetries)
               /\ hist[id].attempts <= maxRetries + 1
               /\ Len(hist[id].outcomes) <= hist[id].attempts
               /\ ActiveTasks(id) = {}
                    => /\ hist[id].attempts = maxRetries + 1
                       /\ Len(hist[id].outcomes) = maxRetries + 1
                       /\ hist[id].retryings = maxRetries
                       /\ jobs[id].status = FAILED
                       /\ jobs[id].retryAttempts = maxRetries

C9_Witness ==
    \E id \in DOMAIN jobs :
        /\ Untouched(id)
        /\ hist[id].outcomes = <<TRANSIENT, TRANSIENT, TRANSIENT, TRANSIENT>>
        /\ ActiveTasks(id) = {}
        /\ jobs[id].status = FAILED

Unauthorized(value) ==
    [op |-> "refresh", result |-> "Unauthorized",
     presented |-> value, refresh_token |-> 0]

\* the refresh tokens that Refresh calls presenting T have created
Children(T) == {t \in DOMAIN tokens : tokens[t].parent = T}

\* C3: a successful Refresh(T) leaves T with isRevoked = TRUE and returns a
\* refresh token value other than T, the value of a stored token; T stays
\* revoked afterwards, and every Refresh(T) that starts after that
\* success fails with Unauthorized, creating and changing nothing.
C3_RotationRevokesConsumedToken ==
    /\ [](\A T \in DOMAIN tokens : tokens[T].rotations >= 1 => tokens[T].isRevoked)
    /\ [][/\ \A r \in RefreshSlots :
                refreshRevoke(r)
                    => LET T == refreshes[r].token
                           new == authResponse'.refresh_token
                       IN /\ authResponse'.op = "refresh"
                          /\ authResponse'.result = "ok"
                          /\ tokens'[T].isRevoked
                          /\ new # T
                          /\ new \in DOMAIN tokens'
          /\ \A T \in DOMAIN tokens :
                (tokens[T].rotations >= 1 /\ refreshFind(T))
                    => /\ authResponse' = Unauthorized(T)
                       /\ UNCHANGED <<tokens, refreshes>>
         ]_vars

\* token 1 was rotated into token 2 by the only Refresh call made, and a
\* second Refresh(1), made after the first had returned, was refused
C3_Witness ==
    /\ Len(tokens) = 2
    /\ tokens[1].rotations = 1
    /\ tokens[1].isRevoked
    /\ tokens[2].parent = 1
    /\ ~tokens[2].isRevoked
    /\ authResponse = Unauthorized(1)
    /\ \A r \in RefreshSlots : refreshes[r].pc = "idle"

\* C4: each refresh token is consumed by at most one successful Refresh: two
\* calls presenting the same token never both succeed, and a token is
\* rotated into at most one new refresh token.
C4_SingleUseRotation ==
    \A T \in DOMAIN tokens :
        /\ tokens[T].rotations <= 1
        /\ Cardinality(Children(T)) <= 1
\* C11: Retry on a job it finds in a status other than FAILED answers
\* BadRequest, writes nothing and starts no processing step; Retry on a job
\* it finds FAILED goes on to save, and its save writes retryAttempts 0 and
\* status PENDING (every other field but the message as found) and starts
\* exactly one new processing step for that job.
C11_RetryByStatus ==
    [][/\ \A id \in DOMAIN jobs :
             retryFind(id)
                 => IF jobs[id].status # FAILED
                    THEN /\ response' = [op |-> "retry", result |-> "BadRequest"]
                         /\ UNCHANGED <<jobs, calls, tasks>>
                    ELSE /\ \E c \in 1..MaxPending :
                              /\ calls'[c].op = "retry"
                              /\ calls'[c].id = id
                              /\ calls'[c].job = jobs[id]
                              /\ calls[c].op = "idle"
                         /\ UNCHANGED <<jobs, tasks>>
       /\ \A c \in 1..MaxPending :
             retrySave(c)
                 => LET id == calls[c].id
                        found == calls[c].job
                    IN /\ found.status = FAILED
                       /\ response' = [op |-> "retry", result |-> "ok"]
                       /\ jobs'[id].status = PENDING
                       /\ jobs'[id].retryAttempts = 0
                       /\ jobs'[id].message = MsgQueuedRetry
                       /\ jobs'[id].type = found.type
                       /\ jobs'[id].documentId = found.documentId
                       /\ jobs'[id].lastErrorMessage = found.lastErrorMessage
                       /\ \A other \in DOMAIN jobs \ {id} : jobs'[other] = jobs[other]
                       /\ Len(tasks') = Len(tasks) + 1
                       /\ SubSeq(tasks', 1, Len(tasks)) = tasks
                       /\ tasks'[Len(tasks')] = [id |-> id, pc |-> "find", job |-> NoJob,
                                               attempt |-> 0]
      ]_vars

\* a job that failed after maxRetries retries was retried by hand: it is
\* PENDING again with the counter back at 0 and its second processing step
\* not yet begun
C11_Witness ==
    /\ response = [op |-> "retry", result |-> "ok"]
    /\ Len(tasks) = 2
    /\ tasks[2].pc = "find"
    /\ \E id \in DOMAIN jobs :
          /\ jobs[id].status = PENDING
          /\ jobs[id].retryAttempts = 0
          /\ jobs[id].message = MsgQueuedRetry
          /\ jobs[id].lastErrorMessage = TRANSIENT
          /\ tasks[2].id = id
\* C12: Refresh with a stored, non-revoked token whose expiresAt is strictly
\* before the current time takes the expired branch: it creates no token,
\* saves that token with isRevoked = TRUE and answers Unauthorized; with the
\* current time at or before expiresAt the call takes the rotation branch.
C12_ExpiredTokenIsRevoked ==
    [][/\ \A T \in DOMAIN tokens :
             (refreshFind(T) /\ ~tokens[T].isRevoked)
                 => /\ UNCHANGED tokens
                    /\ \E r \in RefreshSlots :
                          /\ refreshes[r].pc = "idle"
                          /\ refreshes'[r].token = T
                          /\ refreshes'[r].pc =
                                IF tokens[T].expiresAt < now THEN "expire" ELSE "issue"
       /\ \A r \in RefreshSlots :
             refreshExpire(r)
                 => LET T == refreshes[r].token
                    IN /\ refreshes[r].entity.expiresAt < now
                       /\ authResponse' = Unauthorized(T)
                       /\ Len(tokens') = Len(tokens)
                       /\ tokens'[T].isRevoked
                       /\ \A other \in DOMAIN tokens \ {T} : tokens'[other] = tokens[other]
                       /\ refreshes'[r].pc = "idle"
      ]_vars

\* the token issued at registration was presented after its expiresAt: the
\* call was refused, the token is revoked and it was never rotated
C12_Witness ==
    /\ Len(tokens) = 1
    /\ tokens[1].expiresAt < now
    /\ tokens[1].isRevoked
    /\ tokens[1].rotations = 0
    /\ authResponse = Unauthorized(1)
    /\ \A r \in RefreshSlots : refreshes[r].pc = "idle"
\* C13: Logout with an access token that decodes to subject S reads the
\* refresh tokens of S that are not revoked at that moment, and each of its
\* saves sets isRevoked on one of them and changes nothing else; when it
\* returns every token it read is revoked. The tokens of S revoked before
\* the read and the tokens of other subjects are never written by it.
C13_LogoutRevokesTokensOfSubject ==
    [][\A l \in LogoutSlots :
         LET S == logouts[l].userId
         IN /\ logoutFind(l)
                 => /\ UNCHANGED tokens
                    /\ LET mine == {T \in DOMAIN tokens :
                                       tokens[T].userId = S /\ ~tokens[T].isRevoked}
                       IN IF mine = {}
                          THEN authResponse' = LogoutDone(logouts[l].token)
                          ELSE /\ logouts'[l].pc = "save"
                               /\ logouts'[l].read = mine
                               /\ {logouts'[l].queue[i].value :
                                      i \in DOMAIN logouts'[l].queue} = mine
            /\ logoutSave(l)
                 => LET T == Head(logouts[l].queue).value
                    IN /\ T \in logouts[l].read
                       /\ tokens[T].userId = S
                       /\ tokens' = [tokens EXCEPT ![T].isRevoked = TRUE]
                       /\ logouts'[l].pc = "idle"
                             => /\ authResponse' = LogoutDone(logouts[l].token)
                                /\ \A R \in logouts[l].read : tokens'[R].isRevoked
      ]_vars

\* Logout for subject 1 has returned: token 3 of subject 1 was revoked by
\* it, token 1 of subject 1 had been revoked before by its rotation into
\* token 3, and token 2 of subject 2 is still usable
C13_Witness ==
    /\ authResponse = LogoutDone([sub |-> 1, genuine |-> TRUE])
    /\ \A l \in LogoutSlots : logouts[l].pc = "idle"
    /\ \A r \in RefreshSlots : refreshes[r].pc = "idle"
    /\ Len(tokens) = 3
    /\ tokens[1].userId = 1 /\ tokens[1].isRevoked /\ tokens[1].rotations = 1
    /\ tokens[2].userId = 2 /\ ~tokens[2].isRevoked
    /\ tokens[3].userId = 1 /\ tokens[3].isRevoked /\ tokens[3].parent = 1
\* C14: a refresh token whose isRevoked is TRUE has isRevoked TRUE after
\* every step of Login, Register, Refresh and Logout, the saves of entities
\* loaded earlier included, and no step removes a stored token.
C14_RevokedStaysRevoked ==
    [][/\ Len(tokens') >= Len(tokens)
       /\ \A T \in DOMAIN tokens : tokens[T].isRevoked => tokens'[T].isRevoked
      ]_vars

\* token 1 was loaded by a Refresh call and read by a Logout call while it
\* was usable, and both have saved their copy of it since: the later of the
\* two saves wrote over a token already revoked
C14_Witness ==
    /\ tokens # <<>>
    /\ tokens[1].isRevoked
    /\ tokens[1].rotations = 1
    /\ \E l \in LogoutSlots :
          /\ logouts[l].pc = "save"
          /\ 1 \in logouts[l].read
          /\ \A i \in DOMAIN logouts[l].queue : logouts[l].queue[i].value # 1
\* C15: the blacklist only grows: a step changes it only if it is the start
\* of a Logout(t), which adds exactly t whether or not t decodes, so that
\* isTokenBlacklisted(t) holds from then on; no step removes an entry.
C15_BlacklistOnlyGrows ==
    [][/\ blacklist \subseteq blacklist'
       /\ \A t \in AccessTokens :
             /\ isTokenBlacklisted(t) => (isTokenBlacklisted(t))'
             /\ \A fresh \in BOOLEAN :
                   logout(t, fresh)
                       => /\ blacklist' = blacklist \cup {t}
                          /\ (isTokenBlacklisted(t))'
       /\ blacklist' # blacklist
             => \E t \in AccessTokens : \E fresh \in BOOLEAN :
                   /\ logout(t, fresh)
                   /\ blacklist' \ blacklist = {t}
      ]_vars

\* two access tokens naming subject 1 were logged out, one that decodes and
\* one that does not, and both are blacklisted
C15_Witness ==
    /\ blacklist = {[sub |-> 1, genuine |-> TRUE], [sub |-> 1, genuine |-> FALSE]}
    /\ isTokenBlacklisted([sub |-> 1, genuine |-> FALSE])
    /\ authResponse = LogoutDone([sub |-> 1, genuine |-> FALSE])
\* C16: request authentication of a request that carries an access token in
\* the blacklist (Logout blacklists it before it returns) is rejected with
\* Unauthorized, also when the token's signature and expiry are valid; in
\* that case the rejection is the one JwtStrategy.validate raises.
C16_LoggedOutTokenIsRejected ==
    [][\A t \in blacklist : \A fresh \in BOOLEAN :
          validate(t, fresh)
              => /\ authResponse'.result = "Unauthorized"
                 /\ verifies(t, fresh) => authResponse' = Rejected(t, MsgInvalidated)
      ]_vars

\* the access token of user 1 was logged out, the Logout has returned, and
\* a request carrying it, signature and expiry valid, was then rejected
C16_Witness ==
    /\ authResponse = Rejected([sub |-> 1, genuine |-> TRUE], MsgInvalidated)
    /\ [sub |-> 1, genuine |-> TRUE] \in blacklist
    /\ 1 \in DOMAIN users
    /\ \A l \in LogoutSlots : logouts[l].pc = "idle"
\* C17: Logout with an access token that does not decode (bad signature, or
\* no longer verifiable) returns the success message at once and has added
\* the token to the blacklist; it starts no read of refresh tokens and
\* changes none.
C17_UndecodableLogoutOnlyBlacklists ==
    [][\A t \in AccessTokens : \A fresh \in BOOLEAN :
          (logout(t, fresh) /\ ~verifies(t, fresh))
              => /\ authResponse' = LogoutDone(t)
                 /\ t \in blacklist'
                 /\ UNCHANGED <<tokens, logouts, users, refreshes>>
      ]_vars

\* a token with a bad signature that names user 1 was logged out: it is
\* blacklisted, the call has returned, no Logout is reading or saving, and
\* the refresh token of user 1 is still usable
C17_Witness ==
    /\ authResponse = LogoutDone([sub |-> 1, genuine |-> FALSE])
    /\ blacklist = {[sub |-> 1, genuine |-> FALSE]}
    /\ \A l \in LogoutSlots : logouts[l].pc = "idle"
    /\ \E T \in DOMAIN tokens : tokens[T].userId = 1 /\ ~tokens[T].isRevoked
\* C18: Refresh with a value that matches no stored token, or that matches
\* a stored token already revoked, answers Unauthorized and changes
\* nothing: no token is created, no stored token modified, no save awaited.
C18_UnknownOrRevokedIsRefused ==
    [][\A value \in TokenValues :
          (/\ refreshFind(value)
           /\ value \notin DOMAIN tokens \/ tokens[value].isRevoked)
              => /\ authResponse' = Unauthorized(value)
                 /\ UNCHANGED <<tokens, refreshes, users>>
      ]_vars

\* one refresh token is stored and usable, and a Refresh presenting a value
\* that matches no stored token was refused
C18_Witness ==
    /\ Len(tokens) = 1
    /\ ~tokens[1].isRevoked
    /\ authResponse = Unauthorized(2)
    /\ \A r \in RefreshSlots : refreshes[r].pc = "idle"
\* C19: shouldRetryError(category, attempts) is FALSE whenever attempts >=
\* maxRetries, whatever the category; below maxRetries it is TRUE for
\* TRANSIENT and UNKNOWN and FALSE for PERMANENT.
C19_ShouldRetryTable ==
    (probe.fn = "shouldRetryError" /\ probe.done)
        => probe.retry = IF probe.attempts >= maxRetries THEN FALSE
                         ELSE probe.category \in {TRANSIENT, UNKNOWN}

\* a TRANSIENT error at attempts = maxRetries is not retried: the attempts
\* check comes first
C19_Witness ==
    /\ probe.fn = "shouldRetryError"
    /\ probe.done
    /\ probe.category = TRANSIENT
    /\ probe.attempts = maxRetries
    /\ ~probe.retry
\* C20: with backoff enabled calculateRetryDelay(n) is
\* min(baseDelayMs * 2^n + jitter, maxDelayMs) for a jitter of at least 0
\* and less than 30% of baseDelayMs * 2^n: it never exceeds maxDelayMs and is
\* never below min(baseDelayMs * 2^n, maxDelayMs), a bound that does not
\* decrease as n grows; with backoff disabled it is baseDelayMs.
C20_DelayBounds ==
    (probe.fn = "calculateRetryDelay" /\ probe.done)
        => LET n == probe.attempts
               exponentialDelay == baseDelayMs * 2^n
               scale == 10 * RandomSteps
               exact == scale * exponentialDelay
                           + probe.random * 3 * exponentialDelay
           IN IF probe.backoff
              THEN /\ probe.delay <= maxDelayMs
                   /\ probe.delay >= Min(exponentialDelay, maxDelayMs)
                   /\ 10 * probe.delay < 13 * exponentialDelay
                   /\ IF exact >= scale * maxDelayMs
                      THEN probe.delay = maxDelayMs
                      ELSE /\ scale * probe.delay <= exact
                           /\ exact < scale * (probe.delay + 1)
                   /\ Min(exponentialDelay, maxDelayMs)
                         <= Min(2 * exponentialDelay, maxDelayMs)
              ELSE probe.delay = baseDelayMs

\* attempt 4 with the largest jitter: 32000 ms and more, cut to maxDelayMs
C20_Witness ==
    /\ probe.fn = "calculateRetryDelay"
    /\ probe.done
    /\ probe.backoff
    /\ probe.attempts = 4
    /\ probe.random = RandomSteps - 1
    /\ baseDelayMs * 2^probe.attempts > maxDelayMs
    /\ probe.delay = maxDelayMs

\* C21: a Trigger call saves one new job under an id no existing job has, with
\* status PENDING and retryAttempts 0, leaves every existing job as it was,
\* starts exactly one processing step (for the new job, not yet run), and
\* returns a view of the new job with status PENDING in that same step, before
\* the processing step has loaded the job.
C21_TriggerCreatesPendingJob ==
    [][\A type \in RequestTypes :
          triggerIngestion(type)
              => LET id == Len(jobs) + 1
                 IN /\ id \notin DOMAIN jobs
                    /\ DOMAIN jobs' = DOMAIN jobs \cup {id}
                    /\ \A other \in DOMAIN jobs : jobs'[other] = jobs[other]
                    /\ jobs'[id].type = type
                    /\ jobs'[id].status = PENDING
                    /\ jobs'[id].retryAttempts = 0
                    /\ Len(tasks') = Len(tasks) + 1
                    /\ \A t \in DOMAIN tasks : tasks'[t] = tasks[t]
                    /\ tasks'[Len(tasks')].id = id
                    /\ tasks'[Len(tasks')].pc = "find"
                    /\ response'.op = "trigger"
                    /\ response'.result = "ok"
                    /\ response'.view.id = id
                    /\ response'.view.status = PENDING
                    /\ response'.view.retryAttempts = 0
      ]_vars

\* a second Trigger has just returned its PENDING view while the step of the
\* first job has already completed it
C21_Witness ==
    /\ Len(jobs) = 2
    /\ jobs[1].status = COMPLETED
    /\ jobs[2].status = PENDING
    /\ response.op = "trigger"
    /\ response.view.id = 2
    /\ response.view.status = PENDING
    /\ \E t \in DOMAIN tasks : tasks[t].id = 2 /\ tasks[t].pc = "find"
    /\ Cardinality({t \in DOMAIN tasks : tasks[t].id = 2}) = 1

\* C24: a BatchTrigger call whose n Trigger calls all succeed returns exactly
\* n views, the i-th view being the view of the job created for the i-th
\* request; the ids of the views are pairwise distinct; and when the
\* (i+1)-th Trigger of the batch begins, the jobs of the first i views are
\* already persisted.  An empty batch returns no view and creates nothing.
C24_BatchViewsInRequestOrder ==
    [][/\ batchTrigger
          => LET requests == batch.requests
                 i == Len(batch.responses) + 1
                 views == IF batch'.pc = "idle" THEN response'.views
                                                ELSE batch'.responses
             IN /\ Len(views) = i
                /\ \A k \in 1..(i - 1) :
                      /\ views[k] = batch.responses[k]
                      /\ views[k].id \in DOMAIN jobs
                /\ views[i].id \notin DOMAIN jobs
                /\ \A k \in 1..i :
                      /\ views[k].type = requests[k]
                      /\ views[k].id \in DOMAIN jobs'
                      /\ jobs'[views[k].id].type = requests[k]
                /\ \A k, l \in 1..i : k # l => views[k].id # views[l].id
                /\ (batch'.pc = "idle") = (i = Len(requests))
                /\ batch'.pc = "idle"
                      => /\ response'.op = "batch"
                         /\ response'.result = "ok"
                         /\ Len(response'.views) = Len(requests)
       /\ \A requests \in BatchRequests :
             batchIngestion(requests) /\ requests = <<>>
                 => /\ response' = [op |-> "batch", result |-> "ok", views |-> <<>>]
                    /\ UNCHANGED <<jobs, tasks>>
      ]_vars

\* a batch of a document and an e-mail request has returned its two views
C24_Witness ==
    /\ response.op = "batch"
    /\ batch = NoBatch
    /\ Len(response.views) = 2
    /\ response.views[1].type = DOCUMENT
    /\ response.views[2].type = EMAIL
    /\ response.views[1].id # response.views[2].id
    /\ \A k \in 1..2 : response.views[k].id \in DOMAIN jobs

\* C23: GetStatus, Cancel and Retry called with an id that no job has each
\* answer NotFound, change no job, start no step and hold no call open;
\* GetStatus called with the id of an existing job returns the view of the
\* job as it is persisted at that moment, and changes nothing.
C23_UnknownIdIsNotFound ==
    [][\A id \in LookupIds :
          /\ cancelFind(id) /\ id \notin DOMAIN jobs
                => /\ response' = [op |-> "cancel", result |-> "NotFound"]
                   /\ UNCHANGED <<jobs, tasks, calls>>
          /\ retryFind(id) /\ id \notin DOMAIN jobs
                => /\ response' = [op |-> "retry", result |-> "NotFound"]
                   /\ UNCHANGED <<jobs, tasks, calls>>
          /\ getIngestionStatus(id)
                => /\ UNCHANGED <<jobs, tasks, calls>>
                   /\ IF id \notin DOMAIN jobs
                      THEN response' = [op |-> "status", result |-> "NotFound"]
                      ELSE /\ response'.op = "status"
                           /\ response'.result = "ok"
                           /\ response'.view.id = id
                           /\ response'.view.type = jobs[id].type
                           /\ response'.view.status = jobs[id].status
                           /\ response'.view.message = jobs[id].message
                           /\ response'.view.documentId = jobs[id].documentId
                           /\ response'.view.retryAttempts = jobs[id].retryAttempts
                           /\ response'.view.lastErrorMessage
                                 = jobs[id].lastErrorMessage
                           /\ response'.view.errorDetails = jobs[id].errorDetails
      ]_vars

\* GetStatus has returned the view of a job that is RETRYING with two retries
\* counted while its next attempt is scheduled
C23_Witness ==
    /\ response.op = "status"
    /\ response.result = "ok"
    /\ response.view.status = RETRYING
    /\ response.view.retryAttempts = 2
    /\ jobs[response.view.id].status = RETRYING
    /\ ActiveTasks(response.view.id) # {}

\* C22: a persistence operation of a processing step that fails sends the
\* step into its catch block and nowhere else; the catch block reloads the
\* job and saves it with status FAILED, the error as lastErrorMessage and
\* errorDetails, sets no retry timer, and leaves the stored retryAttempts as
\* it was; when the reload or that save fails too, the step ends and nothing
\* is stored.
C22_StepErrorsAreRecorded ==
    [][\A t \in DOMAIN tasks :
          /\ processFindFails(t) \/ processSaveFails(t) \/ processOutcomeFails(t)
                => /\ tasks'[t].pc = "recover"
                   /\ Len(tasks') = Len(tasks)
                   /\ UNCHANGED <<jobs, response>>
          /\ recoverSave(t)
                => LET id == tasks[t].id
                   IN /\ jobs'[id].status = FAILED
                      /\ jobs'[id].lastErrorMessage = PersistenceError
                      /\ jobs'[id].errorDetails = StackAndTimestamp
                      /\ jobs'[id].retryAttempts = jobs[id].retryAttempts
                      /\ tasks'[t].pc = "done"
                      /\ Len(tasks') = Len(tasks)
                      /\ UNCHANGED response
          /\ recoverFindFails(t) \/ recoverSaveFails(t)
                => /\ tasks'[t].pc = "done"
                   /\ Len(tasks') = Len(tasks)
                   /\ UNCHANGED <<jobs, response>>
      ]_vars

\* C25: a Login call fails with Unauthorized when no user has the given
\* email or the password does not match that user's stored hash, and then no
\* refresh token is created and the call is over; otherwise the call goes on
\* for a user that has the email and whose hash the password matches, and
\* its one save adds exactly one refresh token, not revoked and owned by
\* that user, leaving every existing token and user as it was.
C25_LoginIssuesOneTokenOrRefuses ==
    [][/\ \A email \in Emails : \A password \in Passwords :
             loginValidate(email, password)
                 => /\ UNCHANGED <<users, tokens>>
                    /\ IF \A u \in DOMAIN users :
                             \/ users[u].email # email
                             \/ users[u].password # hash(password)
                       THEN /\ authResponse'.op = "login"
                            /\ authResponse'.result = "Unauthorized"
                            /\ UNCHANGED signins
                       ELSE \E i \in SigninSlots :
                               /\ signins[i].pc = "idle"
                               /\ signins'[i].pc = "login"
                               /\ signins'[i].user \in DOMAIN users
                               /\ users[signins'[i].user].email = email
                               /\ users[signins'[i].user].password = hash(password)
                               /\ \A j \in SigninSlots \ {i} : signins'[j] = signins[j]
       /\ \A i \in SigninSlots :
             loginIssue(i)
                 => /\ Len(tokens') = Len(tokens) + 1
                    /\ \A v \in DOMAIN tokens : tokens'[v] = tokens[v]
                    /\ ~tokens'[Len(tokens')].isRevoked
                    /\ tokens'[Len(tokens')].userId = signins[i].user
                    /\ authResponse'.op = "login"
                    /\ authResponse'.result = "ok"
                    /\ authResponse'.refresh_token = Len(tokens')
                    /\ signins'[i].pc = "idle"
                    /\ UNCHANGED users
      ]_vars

\* a Login with a wrong password was refused after an earlier Login of the
\* same user had been given a token
C25_Witness ==
    /\ authResponse.op = "login"
    /\ authResponse.result = "Unauthorized"
    /\ \E v \in DOMAIN tokens :
          /\ tokens[v].parent = 0
          /\ ~tokens[v].isRevoked
          /\ Cardinality({w \in DOMAIN tokens : tokens[w].userId = tokens[v].userId}) >= 2

\* C26: a Register call that finds a user with the given email fails with
\* Conflict and creates no user and no refresh token; every other Register
\* call creates exactly one user, with the email given and the USER role, and
\* then exactly one refresh token, not revoked and owned by that user.
C26_RegisterCreatesUserOrConflicts ==
    [][/\ \A email \in Emails : \A password \in Passwords :
             registerFind(email, password)
                 => /\ UNCHANGED <<users, tokens>>
                    /\ IF \E u \in DOMAIN users : users[u].email = email
                       THEN /\ authResponse'.op = "register"
                            /\ authResponse'.result = "Conflict"
                            /\ UNCHANGED signins
                       ELSE \E i \in SigninSlots :
                               /\ signins[i].pc = "idle"
                               /\ signins'[i].pc = "create"
                               /\ signins'[i].email = email
       /\ \A i \in SigninSlots :
             registerCreate(i)
                 => /\ Len(users') = Len(users) + 1
                    /\ \A u \in DOMAIN users : users'[u] = users[u]
                    /\ users'[Len(users')].email = signins[i].email
                    /\ users'[Len(users')].role = USER
                    /\ signins'[i].pc = "token"
                    /\ signins'[i].user = Len(users')
                    /\ UNCHANGED tokens
       /\ \A i \in SigninSlots :
             registerIssue(i)
                 => /\ Len(tokens') = Len(tokens) + 1
                    /\ \A v \in DOMAIN tokens : tokens'[v] = tokens[v]
                    /\ ~tokens'[Len(tokens')].isRevoked
                    /\ tokens'[Len(tokens')].userId = signins[i].user
                    /\ authResponse'.op = "register"
                    /\ authResponse'.result = "ok"
                    /\ UNCHANGED users
      ]_vars

\* the job is stored as a Cancel call left it
Canceled(id) == jobs[id].status = FAILED /\ jobs[id].message = MsgCanceled

\* C27: Cancel is advisory.  Neither stretch of a Cancel call removes, ends or
\* changes a processing step, running or waiting on its retry timer; and a
\* step that goes on while the job is stored as canceled writes its result
\* over that state: its first save stores PROCESSING, its outcome stores
\* COMPLETED, RETRYING (setting the next timer) or FAILED as drawn for the
\* copy the step holds, and a timer that fires starts the next attempt.
C27_CancelStopsNoStep ==
    [][/\ \A id \in DOMAIN jobs : cancelFind(id) => UNCHANGED tasks
       /\ \A c \in 1..MaxPending : cancelSave(c) => UNCHANGED tasks
       /\ \A t \in DOMAIN tasks :
             Canceled(tasks[t].id)
                 => /\ processFind(t)
                         => /\ tasks'[t].pc = "loaded"
                            /\ tasks'[t].job = jobs[tasks[t].id]
                    /\ processSave(t)
                         => /\ jobs'[tasks[t].id].status = PROCESSING
                            /\ tasks'[t].pc = "delay"
                    /\ timerFires(t) => tasks'[t].pc = "find"
                    /\ \A outcome \in Outcomes :
                          processOutcome(t, outcome)
                              => /\ jobs'[tasks[t].id]
                                       = simulateProcessingResult(tasks[t].job, outcome)
                                 /\ jobs'[tasks[t].id].status
                                       \in {COMPLETED, RETRYING, FAILED}
                                 /\ outcome = SUCCESS
                                       => jobs'[tasks[t].id].status = COMPLETED
                                 /\ (jobs'[tasks[t].id].status = RETRYING)
                                       = (tasks'[t].pc = "timer")
      ]_vars

\* a job was canceled while its step was running, no Retry was ever called,
\* and the step has since stored COMPLETED
C27_Witness ==
    \E id \in DOMAIN jobs :
        /\ hist[id].cancels >= 1
        /\ hist[id].retries = 0
        /\ response = [op |-> "cancel", result |-> "ok"]
        /\ \A c \in 1..MaxPending : calls[c].op = "idle"
        /\ jobs[id].status = COMPLETED

\* C28: whenever two steps of one job are running or waiting on a retry timer
\* at the same time, a Retry call for that job passed its status check while
\* an earlier step of the job was still running or scheduled; and a job for
\* which no Retry call was accepted has at most one such step.
C28_OverlapNeedsRetryDuringStep ==
    \A id \in DOMAIN jobs :
        /\ Cardinality(ActiveTasks(id)) >= 2 => hist[id].overlapped
        /\ hist[id].retries = 0 => Cardinality(ActiveTasks(id)) <= 1

\* C29: as long as no Cancel call was accepted for a job (and no persistence
\* operation fails), the job has no running and no timer-scheduled step
\* while it is stored as COMPLETED or FAILED, and it has at most one such
\* step at any time, Retry calls included.
C29_NoCancelNoSecondStep ==
    \A id \in DOMAIN jobs :
        hist[id].cancels = 0
            => /\ jobs[id].status \in {COMPLETED, FAILED} => ActiveTasks(id) = {}
               /\ Cardinality(ActiveTasks(id)) <= 1

\* C30: the stored retryAttempts of a job changes only by the increment of
\* exactly 1 that the retry branch of a processing step saves, or to 0 by the
\* save of a Retry call; no other write, such as the save of a copy that a
\* step or a Cancel call loaded earlier, changes it.
C30_RetryAttemptsStepOrReset ==
    [][\A id \in DOMAIN jobs :
          jobs'[id].retryAttempts # jobs[id].retryAttempts
              => \/ /\ jobs'[id].retryAttempts = jobs[id].retryAttempts + 1
                    /\ jobs'[id].status = RETRYING
                    /\ \E t \in DOMAIN tasks : \E outcome \in Outcomes :
                          tasks[t].id = id /\ processOutcome(t, outcome)
                 \/ /\ jobs'[id].retryAttempts = 0
                    /\ \E c \in 1..MaxPending :
                          calls[c].id = id /\ retrySave(c)
      ]_vars

\* C32: the step that draws a retryable failure for a copy with fewer than
\* maxRetries retries stores the job as RETRYING with the copy's retryAttempts
\* plus 1 and sets its one retry timer only as that save has resolved (a timer
\* is never set by a step whose save failed or that stored another status);
\* no other step is created, and the timer starts exactly one re-attempt.  A
\* step that stores COMPLETED or FAILED ends and sets no timer.
C32_RetryingStoredThenOneTimer ==
    [][\A t \in DOMAIN tasks :
          /\ \A outcome \in Outcomes :
                processOutcome(t, outcome)
                    => LET id == tasks[t].id
                           copy == tasks[t].job
                       IN /\ Len(tasks') = Len(tasks)
                          /\ \A u \in DOMAIN tasks \ {t} : tasks'[u] = tasks[u]
                          /\ IF outcome \in Retryable /\ copy.retryAttempts < maxRetries
                             THEN /\ jobs'[id].status = RETRYING
                                  /\ jobs'[id].retryAttempts = copy.retryAttempts + 1
                                  /\ tasks'[t].pc = "timer"
                             ELSE /\ jobs'[id].status \in {COMPLETED, FAILED}
                                  /\ jobs'[id].retryAttempts = copy.retryAttempts
                                  /\ tasks'[t].pc = "done"
          /\ tasks[t].pc # "timer" /\ tasks'[t].pc = "timer"
                => /\ jobs'[tasks[t].id].status = RETRYING
                   /\ jobs'[tasks[t].id].retryAttempts = tasks'[t].attempt
          /\ processOutcomeFails(t)
                => /\ tasks'[t].pc = "recover"
                   /\ Len(tasks') = Len(tasks)
                   /\ UNCHANGED jobs
          /\ timerFires(t)
                => /\ tasks'[t].pc = "find"
                   /\ Len(tasks') = Len(tasks)
                   /\ \A u \in DOMAIN tasks \ {t} : tasks'[u] = tasks[u]
      ]_vars

\* after an attempt whose first read failed, the job is stored as RETRYING
\* with two retries counted and its only step waits on the retry timer
C32_Witness ==
    \E t \in DOMAIN tasks :
        /\ faults >= 1
        /\ tasks[t].pc = "timer"
        /\ jobs[tasks[t].id].status = RETRYING
        /\ jobs[tasks[t].id].retryAttempts = 2
        /\ ActiveTasks(tasks[t].id) = {t}

\* C37: the attempt number given to calculateRetryDelay when a timer is set is
\* the retryAttempts stored by that step, the count after the increment: it
\* lies in 1..maxRetries, is never 0, and for the first automatic retry it is
\* 1, so that the delay is baseDelayMs * 2 plus jitter and not baseDelayMs.
C37_DelayUsesIncrementedCount ==
    [][\A t \in DOMAIN tasks :
          tasks[t].pc # "timer" /\ tasks'[t].pc = "timer"
              => LET n == tasks'[t].attempt
                 IN /\ n = jobs'[tasks[t].id].retryAttempts
                    /\ n = tasks[t].job.retryAttempts + 1
                    /\ n \in 1..maxRetries
                    /\ tasks[t].job.retryAttempts = 0
                          => /\ n = 1
                             /\ calculateRetryDelay(n, 0, exponentialBackoff)
                                   = baseDelayMs * 2
                             /\ \A random \in 0..(RandomSteps - 1) :
                                   calculateRetryDelay(n, random, exponentialBackoff)
                                       >= baseDelayMs * 2
      ]_vars

\* a timer is pending whose delay was computed for attempt maxRetries
C37_Witness ==
    \E t \in DOMAIN tasks :
        /\ tasks[t].pc = "timer"
        /\ tasks[t].attempt = maxRetries
        /\ jobs[tasks[t].id].retryAttempts = maxRetries

\* the job has reached a final status and none of its steps is running or
\* waiting on a timer
Settled(id) ==
    /\ id \in DOMAIN jobs
    /\ jobs[id].status \in {COMPLETED, FAILED}
    /\ ActiveTasks(id) = {}

\* C31: when every ready step and every due timer eventually runs, and no
\* more than finitely many Cancel and Retry calls are made, every triggered
\* job is, from any moment on, eventually stored as COMPLETED or FAILED with
\* no step of it running or scheduled; and a job for which no Cancel or Retry
\* was accepted gets there within maxRetries + 1 processing attempts.
C31_EveryJobSettles ==
    /\ \A id \in JobIds : (id \in DOMAIN jobs) ~> Settled(id)
    /\ [](\A id \in DOMAIN jobs :
             Untouched(id) => hist[id].attempts <= maxRetries + 1)

\* C33: at the moment a Logout for subject S returns, every refresh token of
\* S that is not revoked was issued by a Login or Register call that ran
\* during the Logout; with no such call every token of S is revoked,
\* whatever Refresh calls presenting tokens of S ran at the same time (no
\* token issued by a rotation is left usable).
C33_LogoutLeavesNoRotatedToken ==
    [][\A l \in LogoutSlots :
          (logoutFind(l) \/ logoutSave(l)) /\ logouts'[l].pc = "idle"
              => \A T \in DOMAIN tokens' :
                    tokens'[T].userId = logouts[l].userId /\ ~tokens'[T].isRevoked
                        => tokens'[T].parent = 0
      ]_vars

\* the refresh tokens a Refresh call would accept
UsableTokens(tok) == {T \in DOMAIN tok : ~tok[T].isRevoked}

\* C34: a Refresh call that fails has created no usable refresh token.  A
\* call refused for an unknown or revoked token writes nothing; a call that
\* ends with Unauthorized for an expired token, or with the error of a save
\* that failed (the save that revokes the consumed token included), adds
\* nothing to the usable tokens in the step it fails in, and no token that
\* the call has saved is usable when it fails.
C34_FailedRefreshCreatesNothing ==
    [][/\ \A value \in TokenValues :
             refreshFind(value)
                 /\ (value \notin DOMAIN tokens \/ tokens[value].isRevoked)
                 => UNCHANGED tokens
       /\ \A r \in RefreshSlots :
             refreshExpire(r) \/ refreshExpireFails(r)
                 \/ refreshIssueFails(r) \/ refreshRevokeFails(r)
                 => /\ UsableTokens(tokens') \subseteq UsableTokens(tokens)
                    /\ authResponse'.result \in {"Unauthorized", "QueryFailed"}
                    /\ refreshes[r].issued # 0
                          => refreshes[r].issued \notin UsableTokens(tokens')
      ]_vars

\* the tokens a step creates
CreatedTokens == DOMAIN tokens' \ DOMAIN tokens

\* C35: a refresh token belongs to the user it was created for.  The token
\* that Refresh(T) creates is owned by the owner of T; the token of a Login
\* is owned by the user with the given email and password; the token of a
\* Register is owned by the user it has just created; no step changes the
\* owner of a token that exists.
C35_TokenKeepsItsOwner ==
    [][/\ \A T \in DOMAIN tokens :
             T \in DOMAIN tokens' /\ tokens'[T].userId = tokens[T].userId
       /\ \A r \in RefreshSlots :
             refreshIssue(r)
                 => /\ CreatedTokens = {refreshes'[r].issued}
                    /\ \A N \in CreatedTokens :
                          tokens'[N].userId = tokens[refreshes[r].token].userId
       /\ \A email \in Emails : \A password \in Passwords :
             /\ login(email, password)
                   => \A N \in CreatedTokens :
                         LET u == tokens'[N].userId
                         IN /\ u \in DOMAIN users
                            /\ users[u].email = email
                            /\ compare(password, users[u].password)
             /\ register(email, password)
                   => \A N \in CreatedTokens :
                         LET u == tokens'[N].userId
                         IN /\ u \in DOMAIN users' \ DOMAIN users
                            /\ users'[u].email = email
      ]_vars

\* two users; the second user's token was rotated into a token of the
\* second user, after a login of the first user
C35_Witness ==
    /\ Len(users) = 2
    /\ Len(tokens) = MaxTokens
    /\ \E T, N \in DOMAIN tokens :
          /\ tokens[N].parent = T
          /\ tokens[T].userId = 2
          /\ tokens[N].userId = 2
          /\ tokens[T].isRevoked

\* C36: when the triggerIngestion of the k-th request of a batch fails,
\* batchIngestion fails with that error and returns no views; the loop is
\* left, so the requests after the k-th are never triggered; the k-1 jobs
\* the batch has created stay stored as they are, with their steps, and
\* nothing is rolled back.
C36_BatchFailureKeepsCreatedJobs ==
    /\ [][batchTriggerFails
            => /\ response'.op = "batch"
               /\ response'.result = "QueryFailed"
               /\ "views" \notin DOMAIN response'
               /\ batch'.pc = "idle"
               /\ batch'.requests = <<>>
               /\ Cardinality(createdBy(batch.responses)) = Len(batch.responses)
               /\ Len(batch.responses) < Len(batch.requests)
               /\ jobs' = jobs
               /\ tasks' = tasks
               /\ \A id \in createdBy(batch.responses) :
                     /\ id \in DOMAIN jobs'
                     /\ \E t \in DOMAIN tasks' : tasks'[t].id = id
         ]_vars
    /\ [][batchTrigger => batch.pc = "run" /\ batch.requests # <<>>]_vars
    /\ [](batch.pc = "idle" => batch.requests = <<>>)

\* a batch of two failed at its second request; the job of the first
\* request, not settled then, has completed since
C36_Witness ==
    /\ response.op = "batch"
    /\ response.result = "QueryFailed"
    /\ response.created = {1}
    /\ response.unsettled = {1}
    /\ Len(jobs) = 1
    /\ jobs[1].status = COMPLETED

====
